---- MODULE Spec2Model ----
(***************************************************************************)
(* chacrab: encrypted vault, repositories, backup codec and the            *)
(* bidirectional sync engine.                                              *)
(*                                                                         *)
(* Two replicas ("A" and "B") each own a repository with a vault_items     *)
(* table and a sync_tombstones table (storage/postgres.rs).  The vault     *)
(* service (core/vault.rs), the backup import/export commands              *)
(* (cli/commands.rs, core/backup.rs) and SyncEngine::sync_bidirectional    *)
(* (sync/sync_engine.rs) act on them.                                      *)
(***************************************************************************)
EXTENDS Integers, Sequences, FiniteSets, TLC

\* ------------------------------------------------------------------ bounds
\* Number of distinct item ids (uuids) Spec hands out.
MaxIds == 1
\* Number of distinct item ids SpecMulti hands out, and its number of operations.
MaxIdsMulti == 2
MaxOpsMulti == 4
\* Wall-clock readings Utc::now() may return: 1..MaxTime (the replicas are
\* different devices, their clocks are not ordered with respect to each other).
MaxTime == 2
\* Stand-in for u64::MAX: sync_version lives in 0..U64_MAX and
\* saturating_add(1) saturates there.
U64_MAX == 3
\* Ciphertext bytes are drawn from 1..MaxByte.
MaxByte == 2
\* Number of operations in one behaviour of Spec.
MaxOps == 7
\* Number of operations (an add, or a VaultService call of a caller) in one
\* behaviour of SpecConcurrent.
MaxOpsConcurrent == 4
\* Number of operations in one behaviour of SpecFault, and the largest number
\* of storage calls served before an injected failure.
MaxOpsFault == 5
MaxFuel == 3

\* --------------------------------------------------------------- constants
NONCE_SIZE == 12
\* Length of the malformed nonce blob of tests/sqlite_nonce_validation.rs.
BAD_NONCE_LEN == 5

Replicas == {"A", "B"}
Ids == 1..MaxIds
IdsMulti == 1..MaxIdsMulti
Times == 1..MaxTime
Versions == 0..U64_MAX
VaultItemType == {"password", "note"}
Titles == {"GitHub"}
\* crypto::encrypt output: never empty (it carries the 16-byte tag); one byte
\* stands for one distinct ciphertext.
Ciphertexts == {<<b>> : b \in 1..MaxByte}

None == <<>>
Some(x) == <<x>>
IsSome(o) == o # <<>>
Unwrap(o) == o[1]

\* u64::wrapping_add(1)
wrapping_add(v) == (v + 1) % (U64_MAX + 1)

\* u64::saturating_add(1)
saturating_add(v) == IF v >= U64_MAX THEN U64_MAX ELSE v + 1

\* Vec<u8> ordering (lexicographic), as used by `>=` on encrypted_data.
RECURSIVE VecLt(_, _)
VecLt(a, b) ==
    IF b = <<>> THEN FALSE
    ELSE IF a = <<>> THEN TRUE
    ELSE IF a[1] < b[1] THEN TRUE
    ELSE IF a[1] > b[1] THEN FALSE
    ELSE VecLt(Tail(a), Tail(b))

\* `<=` where the tie-breaker has `>=`.
VecLe(a, b) == ~VecLt(b, a)

VecGe(a, b) == ~VecLt(a, b)

\* ------------------------------------------------------------------ models
\* A vault_items row.  nonce_len is the length of the stored nonce blob: the
\* in-memory VaultItem has a [u8; 12], a row written behind the repository's
\* back may hold any blob.  title stands for the plaintext metadata
\* (title, username, url).
VaultItem(id, type, title, data, ver, created, updated) ==
    [id |-> id, type |-> type, title |-> title, encrypted_data |-> data,
     nonce_len |-> NONCE_SIZE, sync_version |-> ver,
     created_at |-> created, updated_at |-> updated]

SyncTombstone(id, deleted, ver) ==
    [id |-> id, deleted_at |-> deleted, sync_version |-> ver]

EmptyRepository(ids) == [items |-> [i \in ids |-> None], tombstones |-> [i \in ids |-> None]]

\* The ids a repository value is defined over.
IdsOf(rp) == DOMAIN rp.items

\* -------------------------------------------------------------- repository
\* PostgresRepository; every operator takes the repository value and returns
\* the new one (or a result record with an err field).
upsert_item(rp, item) ==
    [rp EXCEPT !.items[item.id] = Some(item)]

delete_item(rp, id) ==
    IF IsSome(rp.items[id])
    THEN [err |-> "", repo |-> [rp EXCEPT !.items[id] = None]]
    ELSE [err |-> "NotFound", repo |-> rp]

upsert_tombstone(rp, t) ==
    [rp EXCEPT !.tombstones[t.id] = Some(t)]

delete_tombstone(rp, id) ==
    [rp EXCEPT !.tombstones[id] = None]

\* list_items: a row whose nonce blob is not 12 bytes fails the whole listing.
list_items(rp) ==
    IF \E i \in IdsOf(rp) : IsSome(rp.items[i]) /\ Unwrap(rp.items[i]).nonce_len # NONCE_SIZE
    THEN [err |-> "Storage", items |-> {}]
    ELSE [err |-> "",
          items |-> {Unwrap(rp.items[i]) : i \in {j \in IdsOf(rp) : IsSome(rp.items[j])}}]

list_tombstones(rp) ==
    {Unwrap(rp.tombstones[i]) : i \in {j \in IdsOf(rp) : IsSome(rp.tombstones[j])}}

get_item(rp, id) ==
    IF ~IsSome(rp.items[id]) THEN [err |-> "NotFound", item |-> None]
    ELSE IF Unwrap(rp.items[id]).nonce_len # NONCE_SIZE THEN [err |-> "Storage", item |-> None]
    ELSE [err |-> "", item |-> rp.items[id]]

\* ------------------------------------------------------------------ crypto
\* crypto::decrypt under the session key: the AEAD tag check fails on anything
\* that is not a ciphertext produced by crypto::encrypt.
decrypt(data) ==
    IF data \in Ciphertexts THEN [err |-> ""] ELSE [err |-> "Crypto"]

\* ----------------------------------------------------------- vault service
\* add_item persisting the item as an update would: sync_version 2.
add_item_second_version(rp, id, type, title, data, now) ==
    LET item == VaultItem(id, type, title, data, 2, now, now)
    IN  [err |-> "", repo |-> upsert_item(rp, item), item |-> Some(item)]

\* add_item persisting the item without the output of crypto::encrypt.
add_item_without_ciphertext(rp, id, type, title, data, now) ==
    LET item == VaultItem(id, type, title, <<>>, 1, now, now)
    IN  [err |-> "", repo |-> upsert_item(rp, item), item |-> Some(item)]

\* VaultService::add_item; id is the fresh Uuid::new_v4(), data the output of
\* crypto::encrypt, now the reading of Utc::now().
add_item(rp, id, type, title, data, now) ==
    LET item == VaultItem(id, type, title, data, 1, now, now)
    IN  [err |-> "", repo |-> upsert_item(rp, item), item |-> Some(item)]

\* VaultService::persist_item_update
persist_item_update(rp, item, data, now) ==
    LET next == [item EXCEPT !.encrypted_data = data,
                             !.nonce_len = NONCE_SIZE,
                             !.sync_version = saturating_add(item.sync_version),
                             !.updated_at = now]
    IN  [err |-> "", repo |-> upsert_item(rp, next), item |-> Some(next)]

\* update_item without the comparison of item.type to the variant updated.
update_item_any_type(rp, id, kind, title, data, now) ==
    LET got == get_item(rp, id)
    IN  IF got.err # "" THEN [err |-> got.err, repo |-> rp, item |-> None]
        ELSE IF decrypt(Unwrap(got.item).encrypted_data).err # ""
        THEN [err |-> "Crypto", repo |-> rp, item |-> None]
        ELSE persist_item_update(rp, [Unwrap(got.item) EXCEPT !.title = title], data, now)

\* VaultService::update_password (kind = "password") and
\* VaultService::update_note (kind = "note").
update_item(rp, id, kind, title, data, now) ==
    LET got == get_item(rp, id)
    IN  IF got.err # "" THEN [err |-> got.err, repo |-> rp, item |-> None]
        ELSE IF Unwrap(got.item).type # kind
        THEN [err |-> "Config(item type mismatch for update)", repo |-> rp, item |-> None]
        ELSE IF decrypt(Unwrap(got.item).encrypted_data).err # ""
        THEN [err |-> "Crypto", repo |-> rp, item |-> None]
        ELSE persist_item_update(rp, [Unwrap(got.item) EXCEPT !.title = title], data, now)

\* The fuel of a storage: None when it never fails, Some(n) when its next n
\* calls are served and the call after them fails; the failure is transient.
served(fuel) == fuel # Some(0)

spend(fuel) ==
    IF ~IsSome(fuel) \/ fuel = Some(0) THEN None ELSE Some(Unwrap(fuel) - 1)

\* VaultService::delete against a storage with the given fuel.  Any error of
\* get_item (NotFound or a storage failure) takes the `Err(_)` arm.
delete_with_storage(rp, id, now, fuel) ==
    LET got == IF served(fuel) THEN get_item(rp, id) ELSE [err |-> "Storage", item |-> None]
        after_get == spend(fuel)
        after_list == IF got.err # "" THEN spend(after_get) ELSE after_get
        found == {t \in list_tombstones(rp) : t.id = id}
        next_sync_version ==
            IF got.err = "" THEN saturating_add(Unwrap(got.item).sync_version)
            ELSE IF found # {}
            THEN saturating_add((CHOOSE t \in found : TRUE).sync_version)
            ELSE 1
        deleted == IF served(after_list) THEN delete_item(rp, id)
                   ELSE [err |-> "Storage", repo |-> rp]
    IN  IF got.err # "" /\ ~served(after_get) THEN [err |-> "Storage", repo |-> rp]
        ELSE IF deleted.err # "" THEN [err |-> deleted.err, repo |-> rp]
        ELSE IF ~served(spend(after_list)) THEN [err |-> "Storage", repo |-> deleted.repo]
        ELSE [err |-> "",
              repo |-> upsert_tombstone(deleted.repo, SyncTombstone(id, now, next_sync_version))]

\* VaultService::delete on a storage that serves every call.
delete(rp, id, now) == delete_with_storage(rp, id, now, None)

\* ------------------------------------------------------------------ backup
BACKUP_FORMAT_VERSION == 1

\* export_encrypted: the BackupPayload carries the item list as stored.
export_encrypted(items) ==
    [format_version |-> BACKUP_FORMAT_VERSION,
     payload |-> [schema_version |-> BACKUP_FORMAT_VERSION, items |-> items]]

\* import_encrypted of a file written by export_encrypted under the same key.
import_encrypted(file) ==
    IF file.format_version # BACKUP_FORMAT_VERSION
    THEN [err |-> "Config(unsupported backup format version)", payload |-> [items |-> {}]]
    ELSE [err |-> "", payload |-> file.payload]

\* The upsert loop of run_backup_import; the items have distinct ids.
RECURSIVE upsert_all(_, _)
upsert_all(rp, items) ==
    IF items = {} THEN rp
    ELSE LET item == CHOOSE x \in items : TRUE
         IN  upsert_all(upsert_item(rp, item), items \ {item})

\* run_backup_import, from import_encrypted on.
run_backup_import(rp, file) ==
    LET imported == import_encrypted(file)
    IN  IF imported.err # "" THEN [err |-> imported.err, repo |-> rp]
        ELSE [err |-> "", repo |-> upsert_all(rp, imported.payload.items)]

\* -------------------------------------------------------------- sync engine
Item(item) == [kind |-> "Item", v |-> item]
Tombstone(t) == [kind |-> "Tombstone", v |-> t]

default_report ==
    [uploaded |-> 0, downloaded |-> 0, conflicts |-> 0, replay_blocked |-> 0,
     conflict_ids |-> <<>>]

\* validate_encrypted_blob_only with the encrypted_data check left out.
validate_nonce_only(item) ==
    item.nonce_len = NONCE_SIZE

validate_encrypted_blob_only(item) ==
    item.encrypted_data # <<>> /\ item.nonce_len = NONCE_SIZE

\* same_item with the ciphertext comparison left out.
same_item_without_data(left, right) ==
    /\ left.id = right.id
    /\ left.type = right.type
    /\ left.title = right.title
    /\ left.nonce_len = right.nonce_len
    /\ left.sync_version = right.sync_version
    /\ left.created_at = right.created_at
    /\ left.updated_at = right.updated_at

same_item(left, right) ==
    /\ left.id = right.id
    /\ left.type = right.type
    /\ left.title = right.title
    /\ left.encrypted_data = right.encrypted_data
    /\ left.nonce_len = right.nonce_len
    /\ left.sync_version = right.sync_version
    /\ left.created_at = right.created_at
    /\ left.updated_at = right.updated_at

state_equivalent(left, right) ==
    IF left.kind = "Item" /\ right.kind = "Item" THEN same_item(left.v, right.v)
    ELSE IF left.kind = "Tombstone" /\ right.kind = "Tombstone" THEN left.v = right.v
    ELSE FALSE

\* state_matches_winner with the tombstone arm left out.
state_matches_winner_items_only(current, winner) ==
    IF ~IsSome(current) THEN FALSE
    ELSE IF Unwrap(current).kind = "Item" /\ winner.kind = "Item"
    THEN same_item(Unwrap(current).v, winner.v)
    ELSE FALSE

\* current is an Option<&SyncState>
state_matches_winner(current, winner) ==
    IF ~IsSome(current) THEN FALSE
    ELSE IF Unwrap(current).kind = "Item" /\ winner.kind = "Item"
    THEN same_item(Unwrap(current).v, winner.v)
    ELSE IF Unwrap(current).kind = "Tombstone" /\ winner.kind = "Tombstone"
    THEN Unwrap(current).v = winner.v
    ELSE FALSE

state_timestamp(state) ==
    IF state.kind = "Item" THEN state.v.updated_at ELSE state.v.deleted_at

state_version(state) == state.v.sync_version

Resolution(winner, conflict, replay_blocked) ==
    [winner |-> winner, conflict |-> conflict, replay_blocked |-> replay_blocked]

\* The tie-breaker with the local state preferred in every arm.
tie_winner_local_first(local_state, remote_state) == local_state

\* The tie-breaker with the item preferred to the tombstone.
tie_winner_item_first(local_state, remote_state) ==
    IF local_state.kind = "Tombstone" /\ remote_state.kind = "Item" THEN remote_state
    ELSE IF local_state.kind = "Item" /\ remote_state.kind = "Tombstone" THEN local_state
    ELSE IF local_state.kind = "Item" /\ remote_state.kind = "Item"
    THEN IF VecGe(local_state.v.encrypted_data, remote_state.v.encrypted_data)
         THEN local_state ELSE remote_state
    ELSE local_state

\* The tie-breaker of resolve_state (equal versions, equal timestamps).
tie_winner(local_state, remote_state) ==
    IF local_state.kind = "Tombstone" /\ remote_state.kind = "Item" THEN local_state
    ELSE IF local_state.kind = "Item" /\ remote_state.kind = "Tombstone" THEN remote_state
    ELSE IF local_state.kind = "Item" /\ remote_state.kind = "Item"
    THEN IF VecGe(local_state.v.encrypted_data, remote_state.v.encrypted_data)
         THEN local_state ELSE remote_state
    ELSE local_state

\* resolve_state with the replay_blocked flag of the stale-remote arm dropped.
resolve_state_without_replay_flag(id, local, remote) ==
    IF ~IsSome(local) /\ ~IsSome(remote) THEN None
    ELSE IF ~IsSome(remote) THEN Some(Resolution(Unwrap(local), FALSE, FALSE))
    ELSE IF ~IsSome(local) THEN Some(Resolution(Unwrap(remote), FALSE, FALSE))
    ELSE LET local_state == Unwrap(local)
             remote_state == Unwrap(remote)
         IN  IF state_equivalent(local_state, remote_state)
             THEN Some(Resolution(local_state, FALSE, FALSE))
             ELSE IF state_version(remote_state) < state_version(local_state)
             THEN Some(Resolution(local_state, TRUE, FALSE))
             ELSE IF state_version(local_state) < state_version(remote_state)
             THEN Some(Resolution(remote_state, TRUE, FALSE))
             ELSE IF state_timestamp(local_state) > state_timestamp(remote_state)
             THEN Some(Resolution(local_state, TRUE, FALSE))
             ELSE IF state_timestamp(remote_state) > state_timestamp(local_state)
             THEN Some(Resolution(remote_state, TRUE, FALSE))
             ELSE Some(Resolution(tie_winner(local_state, remote_state), TRUE, FALSE))

\* local and remote are Option<&SyncState>; the result is Option<Resolution>.
resolve_state(id, local, remote) ==
    IF ~IsSome(local) /\ ~IsSome(remote) THEN None
    ELSE IF ~IsSome(remote) THEN Some(Resolution(Unwrap(local), FALSE, FALSE))
    ELSE IF ~IsSome(local) THEN Some(Resolution(Unwrap(remote), FALSE, FALSE))
    ELSE LET local_state == Unwrap(local)
             remote_state == Unwrap(remote)
             local_version == state_version(local_state)
             remote_version == state_version(remote_state)
             local_time == state_timestamp(local_state)
             remote_time == state_timestamp(remote_state)
         IN  IF state_equivalent(local_state, remote_state)
             THEN Some(Resolution(local_state, FALSE, FALSE))
             ELSE IF remote_version < local_version
             THEN Some(Resolution(local_state, TRUE, TRUE))
             ELSE IF local_version < remote_version
             THEN Some(Resolution(remote_state, TRUE, FALSE))
             ELSE IF local_time > remote_time
             THEN Some(Resolution(local_state, TRUE, FALSE))
             ELSE IF remote_time > local_time
             THEN Some(Resolution(remote_state, TRUE, FALSE))
             ELSE Some(Resolution(tie_winner(local_state, remote_state), TRUE, FALSE))

\* The index sync_bidirectional builds for one side: the items are inserted
\* first, then the tombstones, so a tombstone replaces the item of the same id.
build_index(ids, items, tombstones) ==
    [i \in ids |->
        IF \E t \in tombstones : t.id = i
        THEN Some(Tombstone(CHOOSE t \in tombstones : t.id = i))
        ELSE IF \E it \in items : it.id = i
        THEN Some(Item(CHOOSE it \in items : it.id = i))
        ELSE None]

\* One awaited repository write of the apply step.
repo_call(rp, op, arg) ==
    IF op = "upsert_item" THEN [err |-> "", repo |-> upsert_item(rp, arg)]
    ELSE IF op = "delete_tombstone" THEN [err |-> "", repo |-> delete_tombstone(rp, arg)]
    ELSE IF op = "delete_item" THEN delete_item(rp, arg)
    ELSE [err |-> "", repo |-> upsert_tombstone(rp, arg)]

\* `side.op(arg).await?` inside the loop.  st.fuel is None when the storage
\* never fails, Some(n) when its next n calls are served and the call after
\* them fails (sqlx::Error, mapped to ChacrabError::Storage); once st.err is
\* set the `?` has left the function and nothing more runs.
await_call(st, side, op, arg) ==
    IF st.err # "" THEN st
    ELSE IF st.fuel = Some(0) THEN [st EXCEPT !.err = "Storage"]
    ELSE LET done == repo_call(st[side], op, arg)
             fuel == IF IsSome(st.fuel) THEN Some(Unwrap(st.fuel) - 1) ELSE None
         IN  IF done.err # "" THEN [st EXCEPT !.err = done.err, !.fuel = fuel]
             ELSE [st EXCEPT ![side] = done.repo, !.fuel = fuel]

\* `report.<field> += 1` after the two calls of one side.
count(st, field) ==
    IF st.err # "" THEN st ELSE [st EXCEPT !.report[field] = @ + 1]

\* One iteration of the `for id in all_ids` loop.  st carries both
\* repositories, the report, the error that ended the loop ("" if none) and
\* the fuel of the storage; local_index and remote_index are the snapshots
\* taken before the loop.
apply_resolution(st, id, local_index, remote_index) ==
    LET local_state == local_index[id]
        remote_state == remote_index[id]
        resolved == resolve_state(id, local_state, remote_state)
    IN  IF ~IsSome(resolved) THEN st
        ELSE
        LET resolution == Unwrap(resolved)
            winner == resolution.winner
            counted == [st EXCEPT
                          !.report.conflicts = IF resolution.conflict THEN @ + 1 ELSE @,
                          !.report.conflict_ids =
                              IF resolution.conflict THEN Append(@, id) ELSE @,
                          !.report.replay_blocked =
                              IF resolution.replay_blocked THEN @ + 1 ELSE @]
            to_local == ~state_matches_winner(local_state, winner)
            to_remote == ~state_matches_winner(remote_state, winner)
        IN  IF winner.kind = "Item"
            THEN LET local_done ==
                         IF to_local
                         THEN count(await_call(await_call(counted, "local", "upsert_item", winner.v),
                                               "local", "delete_tombstone", id),
                                    "downloaded")
                         ELSE counted
                 IN  IF to_remote
                     THEN count(await_call(await_call(local_done, "remote", "upsert_item", winner.v),
                                           "remote", "delete_tombstone", id),
                                "uploaded")
                     ELSE local_done
            ELSE LET local_done ==
                         IF to_local
                         THEN count(await_call(await_call(counted, "local", "delete_item", id),
                                               "local", "upsert_tombstone", winner.v),
                                    "downloaded")
                         ELSE counted
                 IN  IF to_remote
                     THEN count(await_call(await_call(local_done, "remote", "delete_item", id),
                                           "remote", "upsert_tombstone", winner.v),
                                "uploaded")
                     ELSE local_done

RECURSIVE sync_loop(_, _, _, _)
sync_loop(st, order, local_index, remote_index) ==
    IF order = <<>> \/ st.err # "" THEN st
    ELSE sync_loop(apply_resolution(st, Head(order), local_index, remote_index),
                   Tail(order), local_index, remote_index)

\* The ids of the HashSet all_ids.
all_ids(local_index, remote_index) ==
    {i \in DOMAIN local_index : IsSome(local_index[i]) \/ IsSome(remote_index[i])}

\* The orders in which a HashSet may be iterated.
Orders(S) ==
    {f \in [1..Cardinality(S) -> S] : \A x \in S : \E k \in 1..Cardinality(S) : f[k] = x}

\* SyncEngine::sync_bidirectional against a storage with the given fuel; order
\* is the iteration order of all_ids.  The result holds both repositories as
\* the call leaves them, err ("" for Ok) and the report (returned to the
\* caller only when err = "").
sync_with_storage(local, remote, order, fuel) ==
    LET local_items == list_items(local)
        remote_items == list_items(remote)
        start == [local |-> local, remote |-> remote, err |-> "",
                  report |-> default_report, fuel |-> fuel]
    IN  IF local_items.err # "" THEN [start EXCEPT !.err = local_items.err]
        ELSE IF remote_items.err # "" THEN [start EXCEPT !.err = remote_items.err]
        ELSE IF \/ \E item \in local_items.items : ~validate_encrypted_blob_only(item)
                \/ \E item \in remote_items.items : ~validate_encrypted_blob_only(item)
        THEN [start EXCEPT !.err = "Config(sync rejected invalid encrypted payload)"]
        ELSE sync_loop(start, order,
                       build_index(IdsOf(local), local_items.items, list_tombstones(local)),
                       build_index(IdsOf(remote), remote_items.items, list_tombstones(remote)))

\* SyncEngine::sync_bidirectional on a storage that serves every call.
sync_bidirectional(local, remote, order) ==
    sync_with_storage(local, remote, order, None)

\* The snapshot indexes of a repository, as sync_bidirectional computes them.
index_of(rp) == build_index(IdsOf(rp), list_items(rp).items, list_tombstones(rp))

\* ------------------------------------------------------------------- state
VARIABLES
    repo,       \* repo[r]: the repository of replica r
    backup,     \* the backup file on disk (None until the first export)
    last,       \* the last operation: its name, replica, id argument and result
    pre,        \* the repositories as they were when the last operation started
    observed,   \* observed[r][i]: highest sync_version r stored for id i before the last operation
    budget,     \* number of operations the behaviour may still run
    calls,      \* calls[c]: the VaultService call caller c is in, and where it awaits
    auth,       \* the AuthRecord of the repository (None before init)
    keyring,    \* the OS keyring: the session key and the last-activity entry
    backup_file \* the backup file on disk with its encoded fields (None until written)

vars == <<repo, backup, last, pre, observed, budget, calls, auth, keyring, backup_file>>

\* id is 0 for the operations that take no id.
Result(op, r, id, err, report) ==
    [op |-> op, replica |-> r, id |-> id, err |-> err, report |-> report]

\* The ids of the behaviour.
AllIds == IdsOf(repo["A"])

\* Highest sync_version a repository stores for an id (0 when it stores none).
stored_version(rp, i) ==
    LET iv == IF IsSome(rp.items[i]) THEN Unwrap(rp.items[i]).sync_version ELSE 0
        tv == IF IsSome(rp.tombstones[i]) THEN Unwrap(rp.tombstones[i]).sync_version ELSE 0
    IN  IF iv >= tv THEN iv ELSE tv

Observe ==
    observed' = [r \in Replicas |-> [i \in AllIds |->
                    IF stored_version(repo[r], i) > observed[r][i]
                    THEN stored_version(repo[r], i) ELSE observed[r][i]]]

\* Ids no repository and no backup file mentions or ever mentioned: what
\* Uuid::new_v4() may return.
unused_ids ==
    {i \in AllIds :
        /\ \A r \in Replicas : ~IsSome(repo[r].items[i]) /\ ~IsSome(repo[r].tombstones[i])
        /\ \A r \in Replicas : observed[r][i] = 0
        /\ (IsSome(backup) => \A item \in Unwrap(backup).payload.items : item.id # i)}

\* The callers that may be inside a VaultService call at the same time.
Callers == {"c1", "c2"}

\* A caller that is in no call.
IdleCall == [pc |-> "idle", op |-> "", id |-> 0, item |-> None, next_sync_version |-> 0]

\* The keyring with neither the session-master-key entry nor the
\* session-last-activity entry.
EmptyKeyring == [key |-> None, meta |-> None]

InitOver(ids, n) ==
    /\ calls = [c \in Callers |-> IdleCall]
    /\ auth = None
    /\ keyring = EmptyKeyring
    /\ backup_file = None
    /\ repo = [r \in Replicas |-> EmptyRepository(ids)]
    /\ backup = None
    /\ last = Result("init", "A", 0, "", default_report)
    /\ pre = [r \in Replicas |-> EmptyRepository(ids)]
    /\ observed = [r \in Replicas |-> [i \in ids |-> 0]]
    /\ budget = n

Init == InitOver(Ids, MaxOps)

InitMulti == InitOver(IdsMulti, MaxOpsMulti)

Step(next_repo, result) ==
    /\ budget > 0
    /\ budget' = budget - 1
    /\ repo' = next_repo
    /\ last' = result
    /\ pre' = repo
    /\ Observe
    /\ UNCHANGED <<calls, auth, keyring, backup_file>>

\* add-password / add-note on replica r
AddItem(r) ==
    \E type \in VaultItemType, title \in Titles, data \in Ciphertexts, now \in Times :
        /\ unused_ids # {}
        /\ LET id == CHOOSE i \in unused_ids : \A j \in unused_ids : i <= j
               done == add_item(repo[r], id, type, title, data, now)
           IN  Step([repo EXCEPT ![r] = done.repo], Result("add", r, id, done.err, default_report))
        /\ UNCHANGED backup

\* VaultService::update_password / update_note on replica r
UpdateItem(r) ==
    \E id \in AllIds, kind \in VaultItemType, title \in Titles,
       data \in Ciphertexts, now \in Times :
        /\ LET done == update_item(repo[r], id, kind, title, data, now)
           IN  Step([repo EXCEPT ![r] = done.repo],
                    Result("update", r, id, done.err, default_report))
        /\ UNCHANGED backup

\* delete on replica r
DeleteItem(r) ==
    \E id \in AllIds, now \in Times :
        /\ LET done == delete(repo[r], id, now)
           IN  Step([repo EXCEPT ![r] = done.repo],
                    Result("delete", r, id, done.err, default_report))
        /\ UNCHANGED backup

\* backup-export on replica r
BackupExport(r) ==
    /\ LET listed == list_items(repo[r])
       IN  /\ backup' = IF listed.err = "" THEN Some(export_encrypted(listed.items)) ELSE backup
           /\ Step(repo, Result("backup_export", r, 0, listed.err, default_report))

\* backup-import on replica r (the file exists)
BackupImport(r) ==
    /\ IsSome(backup)
    /\ LET done == run_backup_import(repo[r], Unwrap(backup))
       IN  Step([repo EXCEPT ![r] = done.repo],
                Result("backup_import", r, 0, done.err, default_report))
    /\ UNCHANGED backup

\* sync run on replica l (the local side) against the other replica
Sync(l) ==
    \E r \in Replicas \ {l} :
    \E order \in Orders(all_ids(index_of(repo[l]), index_of(repo[r]))) :
        /\ LET done == sync_bidirectional(repo[l], repo[r], order)
           IN  Step([repo EXCEPT ![l] = done.local, ![r] = done.remote],
                    Result("sync", l, 0, done.err,
                           IF done.err = "" THEN done.report ELSE default_report))
        /\ UNCHANGED backup

\* A malformed row written to vault_items behind the repository, under a new
\* uuid: an empty encrypted_data blob or a nonce blob that is not 12 bytes.
RawInsert(r) ==
    \E type \in VaultItemType, title \in Titles, data \in Ciphertexts \cup {<<>>},
       nonce_len \in {BAD_NONCE_LEN, NONCE_SIZE}, now \in Times :
        /\ unused_ids # {}
        /\ data = <<>> \/ nonce_len # NONCE_SIZE
        /\ LET id == CHOOSE i \in unused_ids : \A j \in unused_ids : i <= j
               row == [VaultItem(id, type, title, data, 1, now, now)
                          EXCEPT !.nonce_len = nonce_len]
           IN  Step([repo EXCEPT ![r].items[id] = Some(row)],
                    Result("raw_insert", r, id, "", default_report))
        /\ UNCHANGED backup

\* delete on replica r while the storage fails at one of its calls
DeleteItemFault(r) ==
    \E id \in AllIds, now \in Times, n \in 0..MaxFuel :
        /\ LET done == delete_with_storage(repo[r], id, now, Some(n))
           IN  Step([repo EXCEPT ![r] = done.repo],
                    Result("delete", r, id, done.err, default_report))
        /\ UNCHANGED backup

\* sync run on replica l while the storage fails at one of the writes
SyncFault(l) ==
    \E r \in Replicas \ {l} :
    \E order \in Orders(all_ids(index_of(repo[l]), index_of(repo[r]))) :
    \E n \in 0..MaxFuel :
        /\ LET done == sync_with_storage(repo[l], repo[r], order, Some(n))
           IN  Step([repo EXCEPT ![l] = done.local, ![r] = done.remote],
                    Result("sync", l, 0, done.err,
                           IF done.err = "" THEN done.report ELSE default_report))
        /\ UNCHANGED backup

Next ==
    \/ \E r \in Replicas : AddItem(r)
    \/ \E r \in Replicas : UpdateItem(r)
    \/ \E r \in Replicas : DeleteItem(r)
    \/ \E r \in Replicas : BackupExport(r)
    \/ \E r \in Replicas : BackupImport(r)
    \/ \E r \in Replicas : Sync(r)

Spec == Init /\ [][Next]_vars

SpecMulti == InitMulti /\ [][Next]_vars

NextRaw == Next \/ \E r \in Replicas : RawInsert(r)

SpecRaw == InitMulti /\ [][NextRaw]_vars

NextFault ==
    \/ Next
    \/ \E r \in Replicas : DeleteItemFault(r)
    \/ \E r \in Replicas : SyncFault(r)

SpecFault == InitOver(Ids, MaxOpsFault) /\ [][NextFault]_vars

\* ------------------------------------------------------ concurrent callers
\* Callers c1 and c2 run VaultService::update_password / update_note and
\* VaultService::delete on the repository of replica "A"; a caller is
\* suspended at each `.await` of a repository call and the other may run.
Shared == "A"

CallStep(c, cost, next_repo, next_call, result) ==
    /\ budget >= cost
    /\ budget' = budget - cost
    /\ repo' = [repo EXCEPT ![Shared] = next_repo]
    /\ calls' = [calls EXCEPT ![c] = next_call]
    /\ last' = result
    /\ pre' = repo
    /\ Observe
    /\ UNCHANGED <<backup, auth, keyring, backup_file>>

\* The call starts: `self.repository.get_item(id).await`.
CallGetItem(c) ==
    \E op \in {"update", "delete"}, id \in AllIds, kind \in VaultItemType :
        /\ calls[c].pc = "idle"
        /\ LET got == get_item(repo[Shared], id)
               failed == IF got.err # "" THEN got.err
                         ELSE IF Unwrap(got.item).type # kind
                         THEN "Config(item type mismatch for update)"
                         ELSE IF decrypt(Unwrap(got.item).encrypted_data).err # ""
                         THEN "Crypto"
                         ELSE ""
           IN  IF op = "update"
               THEN IF failed # ""
                    THEN CallStep(c, 1, repo[Shared], IdleCall,
                                  Result("update", Shared, id, failed, default_report))
                    ELSE CallStep(c, 1, repo[Shared],
                                  [IdleCall EXCEPT !.pc = "upsert_item", !.op = op, !.id = id,
                                                   !.item = got.item],
                                  last)
               ELSE IF got.err = ""
                    THEN CallStep(c, 1, repo[Shared],
                                  [IdleCall EXCEPT
                                      !.pc = "delete_item", !.op = op, !.id = id,
                                      !.next_sync_version =
                                          saturating_add(Unwrap(got.item).sync_version)],
                                  last)
                    ELSE CallStep(c, 1, repo[Shared],
                                  [IdleCall EXCEPT !.pc = "list_tombstones", !.op = op,
                                                   !.id = id],
                                  last)

\* delete: `self.repository.list_tombstones().await?` in the Err(_) arm.
CallListTombstones(c) ==
    /\ calls[c].pc = "list_tombstones"
    /\ LET found == {t \in list_tombstones(repo[Shared]) : t.id = calls[c].id}
           next_sync_version ==
               IF found # {} THEN saturating_add((CHOOSE t \in found : TRUE).sync_version)
               ELSE 1
       IN  CallStep(c, 0, repo[Shared],
                    [calls[c] EXCEPT !.pc = "delete_item",
                                     !.next_sync_version = next_sync_version],
                    last)

\* delete: `self.repository.delete_item(id).await?`
CallDeleteItem(c) ==
    /\ calls[c].pc = "delete_item"
    /\ LET deleted == delete_item(repo[Shared], calls[c].id)
       IN  IF deleted.err # ""
           THEN CallStep(c, 0, repo[Shared], IdleCall,
                         Result("delete", Shared, calls[c].id, deleted.err, default_report))
           ELSE CallStep(c, 0, deleted.repo, [calls[c] EXCEPT !.pc = "upsert_tombstone"], last)

\* delete: `self.repository.upsert_tombstone(..).await`
CallUpsertTombstone(c) ==
    \E now \in Times :
        /\ calls[c].pc = "upsert_tombstone"
        /\ CallStep(c, 0,
                    upsert_tombstone(repo[Shared],
                                     SyncTombstone(calls[c].id, now, calls[c].next_sync_version)),
                    IdleCall,
                    Result("delete", Shared, calls[c].id, "", default_report))

\* update: persist_item_update on the item fetched at the start of the call.
CallUpsertItem(c) ==
    \E title \in Titles, data \in Ciphertexts, now \in Times :
        /\ calls[c].pc = "upsert_item"
        /\ LET done == persist_item_update(repo[Shared],
                                           [Unwrap(calls[c].item) EXCEPT !.title = title],
                                           data, now)
           IN  CallStep(c, 0, done.repo, IdleCall,
                        Result("update", Shared, calls[c].id, done.err, default_report))

NextConcurrent ==
    \/ AddItem(Shared)
    \/ \E c \in Callers : CallGetItem(c)
    \/ \E c \in Callers : CallListTombstones(c)
    \/ \E c \in Callers : CallDeleteItem(c)
    \/ \E c \in Callers : CallUpsertTombstone(c)
    \/ \E c \in Callers : CallUpsertItem(c)

SpecConcurrent == InitOver(Ids, MaxOpsConcurrent) /\ [][NextConcurrent]_vars

\* ================================================================== claims
Other(r) == CHOOSE q \in Replicas : q # r

HoldsSomething(rp, i) == IsSome(rp.items[i]) \/ IsSome(rp.tombstones[i])

Rows(rp, i) == <<rp.items[i], rp.tombstones[i]>>

\* The repository holds at most one of {item, tombstone} for the id.
Clean(rp, i) == ~(IsSome(rp.items[i]) /\ IsSome(rp.tombstones[i]))

\* The state a repository presents to sync for an id: its tombstone if it
\* holds one, else its item, else nothing.
SideState(rp, i) ==
    IF IsSome(rp.tombstones[i]) THEN Some(Tombstone(Unwrap(rp.tombstones[i])))
    ELSE IF IsSome(rp.items[i]) THEN Some(Item(Unwrap(rp.items[i])))
    ELSE None

\* The rows of a repository that holds exactly the state s for an id.
RowsOf(s) ==
    IF s.kind = "Item" THEN <<Some(s.v), None>> ELSE <<None, Some(s.v)>>

SyncOk == last.op = "sync" /\ last.err = ""

\* The local and the remote repository of the last sync, before and after it.
PreLocal == pre[last.replica]
PreRemote == pre[Other(last.replica)]
PostLocal == repo[last.replica]
PostRemote == repo[Other(last.replica)]

\* The ids on which the two sides of the last sync held differing states, and
\* those of them on which the remote version was the lower one.
ConflictIds ==
    {i \in AllIds : /\ IsSome(SideState(PreLocal, i))
                    /\ IsSome(SideState(PreRemote, i))
                    /\ SideState(PreLocal, i) # SideState(PreRemote, i)}

StaleRemoteIds ==
    {i \in ConflictIds : Unwrap(SideState(PreRemote, i)).v.sync_version
                            < Unwrap(SideState(PreLocal, i)).v.sync_version}

StaleLocalIds ==
    {i \in ConflictIds : Unwrap(SideState(PreLocal, i)).v.sync_version
                            < Unwrap(SideState(PreRemote, i)).v.sync_version}

\* Number of entries of report.conflict_ids that name the id.
Occurrences(i) ==
    Cardinality({k \in 1..Len(last.report.conflict_ids) : last.report.conflict_ids[k] = i})

\* No id other than i has an item or a tombstone on either side of the last sync.
OnlyIdInPlay(i) ==
    \A j \in AllIds \ {i} : ~HoldsSomething(PreLocal, j) /\ ~HoldsSomething(PreRemote, j)

C2_SyncIdempotent ==
    SyncOk =>
        \A order \in Orders(all_ids(index_of(PostLocal), index_of(PostRemote))) :
            LET again == sync_bidirectional(PostLocal, PostRemote, order)
            IN  /\ again.err = ""
                /\ again.report = default_report
                /\ again.local = PostLocal
                /\ again.remote = PostRemote

\* A successful sync in which a tombstone won and was written to a replica.
C2_Witness ==
    /\ SyncOk
    /\ last.report.uploaded + last.report.downloaded > 0
    /\ \E i \in AllIds : /\ IsSome(PostLocal.tombstones[i])
                         /\ IsSome(PostRemote.tombstones[i])
                         /\ Rows(PreLocal, i) # Rows(PreRemote, i)

\* C3: once a replica has stored an item or a tombstone for an id at
\* sync_version N, no sync replaces that replica's state for the id with a
\* state whose sync_version is lower than N (N ranges over every version the
\* replica stored before the sync, the one it holds when the sync starts
\* included).
C3_ReplayProtection ==
    last.op = "sync" =>
        \A r \in Replicas, i \in AllIds :
            Rows(repo[r], i) # Rows(pre[r], i) =>
                /\ stored_version(repo[r], i) >= observed[r][i]
                /\ stored_version(repo[r], i) >= stored_version(pre[r], i)

\* C4: after any completed operation (add, update, delete, backup import,
\* successful sync) no repository holds both a VaultItem and a SyncTombstone
\* for the same id.
C4_ItemXorTombstone ==
    last.err = "" =>
        \A r \in Replicas, i \in AllIds : Clean(repo[r], i)

\* An item of either side of the last sync has an empty encrypted_data or a
\* nonce that is not 12 bytes.
BadNonce(rp) ==
    \E i \in AllIds : IsSome(rp.items[i]) /\ Unwrap(rp.items[i]).nonce_len # NONCE_SIZE

EmptyData(rp) ==
    \E i \in AllIds : IsSome(rp.items[i]) /\ Unwrap(rp.items[i]).encrypted_data = <<>>

InvalidPayload == BadNonce(PreLocal) \/ BadNonce(PreRemote)
                    \/ EmptyData(PreLocal) \/ EmptyData(PreRemote)

\* C5 as stated: if any item on either replica has an empty encrypted_data or
\* a nonce that is not 12 bytes, sync fails with
\* Config("sync rejected invalid encrypted payload") and writes nothing.
C5_InvalidPayloadIsConfig ==
    (last.op = "sync" /\ InvalidPayload) =>
        /\ last.err = "Config(sync rejected invalid encrypted payload)"
        /\ repo = pre

\* C5 as the code has it: such a sync writes nothing and fails; the error is
\* the repository's Storage error when a stored nonce is not 12 bytes (the
\* listing fails before validation runs), and
\* Config("sync rejected invalid encrypted payload") when only an
\* encrypted_data is empty.
C5_InvalidPayloadRejected ==
    (last.op = "sync" /\ InvalidPayload) =>
        /\ repo = pre
        /\ last.err = IF BadNonce(PreLocal) \/ BadNonce(PreRemote)
                      THEN "Storage"
                      ELSE "Config(sync rejected invalid encrypted payload)"

\* A sync rejected for an empty encrypted_data while the replicas differed on
\* a valid item, which a sync without the validation would have copied.
C5_Witness ==
    /\ last.op = "sync"
    /\ last.err = "Config(sync rejected invalid encrypted payload)"
    /\ \E i \in AllIds :
          /\ IsSome(PreLocal.items[i])
          /\ validate_encrypted_blob_only(Unwrap(PreLocal.items[i]))
          /\ ~HoldsSomething(PreRemote, i)

\* C6: when both replicas hold differing states for an id and the remote
\* sync_version is lower than the local one, sync overwrites the remote with
\* the local state, leaves the local replica unchanged and counts the id as a
\* conflict and as replay_blocked.
C6_LocalWinsOverStaleRemote ==
    last.op = "sync" =>
        \A i \in StaleRemoteIds :
            (Clean(PreLocal, i) /\ Clean(PreRemote, i)) =>
                /\ last.err = ""
                /\ Rows(PostRemote, i) = Rows(PreLocal, i)
                /\ Rows(PostLocal, i) = Rows(PreLocal, i)
                /\ Occurrences(i) = 1
                /\ last.report.replay_blocked = Cardinality(StaleRemoteIds)

\* C7: when both replicas hold differing states for an id and the local
\* sync_version is lower than the remote one, the local replica ends with the
\* remote state, the remote is unchanged, a conflict is counted and
\* replay_blocked is not.
C7_RemoteWinsOverStaleLocal ==
    last.op = "sync" =>
        \A i \in StaleLocalIds :
            (Clean(PreLocal, i) /\ Clean(PreRemote, i)) =>
                /\ last.err = ""
                /\ Rows(PostLocal, i) = Rows(PreRemote, i)
                /\ Rows(PostRemote, i) = Rows(PreRemote, i)
                /\ Occurrences(i) = 1
                /\ last.report.replay_blocked = Cardinality(StaleRemoteIds)

\* Replica r holds only a tombstone for the id, the other replica only an
\* item, at the same sync_version and the same timestamp.
TombstoneItemTie(r, i) ==
    /\ ~IsSome(pre[r].items[i])
    /\ IsSome(pre[r].tombstones[i])
    /\ IsSome(pre[Other(r)].items[i])
    /\ ~IsSome(pre[Other(r)].tombstones[i])
    /\ Unwrap(pre[r].tombstones[i]).sync_version = Unwrap(pre[Other(r)].items[i]).sync_version
    /\ Unwrap(pre[r].tombstones[i]).deleted_at = Unwrap(pre[Other(r)].items[i]).updated_at

\* C8: when one replica holds a tombstone and the other a live item for the
\* same id at equal sync_version and equal timestamp, whichever side holds the
\* tombstone, the sync on that id succeeds and leaves on both replicas the
\* tombstone and no item, with exactly one conflict reported for the id.
C8_TombstoneWinsTie ==
    last.op = "sync" =>
        \A r \in Replicas, i \in AllIds :
            TombstoneItemTie(r, i) =>
                /\ OnlyIdInPlay(i) => (last.err = "" /\ last.report.conflicts = 1)
                /\ last.err = "" =>
                      /\ Rows(PostLocal, i) = <<None, pre[r].tombstones[i]>>
                      /\ Rows(PostRemote, i) = <<None, pre[r].tombstones[i]>>
                      /\ Occurrences(i) = 1

\* A sync that met the tie with the tombstone on the remote side.
C8_Witness ==
    /\ SyncOk
    /\ \E i \in AllIds : TombstoneItemTie(Other(last.replica), i)

\* C9: in the report of a successful sync, uploaded is the number of ids whose
\* rows on the remote changed, downloaded the number whose rows on the local
\* changed, conflicts the number of ids on which both sides held differing
\* states, replay_blocked the number of those with the lower version on the
\* remote, and conflict_ids lists each conflicting id exactly once.
C9_ReportCounts ==
    SyncOk =>
        /\ last.report.uploaded
              = Cardinality({i \in AllIds : Rows(PostRemote, i) # Rows(PreRemote, i)})
        /\ last.report.downloaded
              = Cardinality({i \in AllIds : Rows(PostLocal, i) # Rows(PreLocal, i)})
        /\ last.report.conflicts = Cardinality(ConflictIds)
        /\ last.report.replay_blocked = Cardinality(StaleRemoteIds)
        /\ Len(last.report.conflict_ids) = Cardinality(ConflictIds)
        /\ \A i \in AllIds : Occurrences(i) = IF i \in ConflictIds THEN 1 ELSE 0

\* A successful sync that blocked a replay: a conflict on an id with the lower
\* version on the remote, resolved by an upload.
C9_Witness ==
    /\ SyncOk
    /\ last.report.replay_blocked = 1
    /\ last.report.conflicts = 1
    /\ last.report.uploaded = 1

\* The item a successful update read and the item it stored.
UpdateOk == last.op = "update" /\ last.err = ""
Before == Unwrap(pre[last.replica].items[last.id])
After == Unwrap(repo[last.replica].items[last.id])

\* C10 as stated: every successful update stores the item with a sync_version
\* strictly greater than the one it had, for every prior sync_version.
C10_UpdateStrictlyIncreases ==
    UpdateOk => After.sync_version > Before.sync_version

\* C10 as the code has it: a successful update stores the previous
\* sync_version plus one when the previous one is below u64::MAX, and leaves
\* it at u64::MAX when it is u64::MAX.
C10_UpdateIncrementsOrSaturates ==
    UpdateOk =>
        /\ Before.sync_version < U64_MAX => After.sync_version = Before.sync_version + 1
        /\ Before.sync_version = U64_MAX => After.sync_version = U64_MAX

\* A successful update of an item whose sync_version was already u64::MAX.
C10_Witness ==
    UpdateOk /\ Before.sync_version = U64_MAX

\* C11: while callers run update and delete on the same id with their
\* repository calls interleaving, the sync_version stored for the id (item or
\* tombstone) is never lower than one stored for it before.
C11_ConcurrentVersionMonotonic ==
    \A i \in AllIds :
        HoldsSomething(repo[Shared], i) =>
            stored_version(repo[Shared], i) >= observed[Shared][i]

\* C12: a successful delete(id) writes a tombstone whose sync_version is
\* max(sync_version of the existing item if any, sync_version of the existing
\* tombstone if any, 0) + 1, saturating, also when both exist for the id.
C12_DeleteVersionIsMaxPlusOne ==
    (last.op = "delete" /\ last.err = "") =>
        /\ IsSome(repo[last.replica].tombstones[last.id])
        /\ Unwrap(repo[last.replica].tombstones[last.id]).sync_version
              = saturating_add(stored_version(pre[last.replica], last.id))

\* C13: delete(id) for an id that has no item and no tombstone in the
\* repository succeeds and writes a tombstone for the id with sync_version 1.
C13_DeleteAbsentWritesTombstone ==
    (last.op = "delete" /\ ~HoldsSomething(pre[last.replica], last.id)) =>
        /\ last.err = ""
        /\ IsSome(repo[last.replica].tombstones[last.id])
        /\ Unwrap(repo[last.replica].tombstones[last.id]).sync_version = 1

\* The rows of replica r for the id are those of one whole application of a
\* state that a side presented to the last sync.
WinnerApplied(r, i) ==
    \E q \in Replicas :
        /\ IsSome(SideState(pre[q], i))
        /\ Rows(repo[r], i) = RowsOf(Unwrap(SideState(pre[q], i)))

\* C14: when a vault delete or a sync fails at a repository call, every write
\* that changes an item row and a tombstone row landed whole or not at all:
\* the rows of each id on each replica are the ones before the operation or,
\* in a sync, the ones of a fully applied winner.
C14_WritesAreAtomic ==
    (last.op \in {"delete", "sync"} /\ last.err # "") =>
        \A r \in Replicas, i \in AllIds :
            \/ Rows(repo[r], i) = Rows(pre[r], i)
            \/ last.op = "sync" /\ WinnerApplied(r, i)

\* C15: after a sync that a failing repository call ended part-way, a sync
\* over the resulting state on a storage that serves every call succeeds and
\* leaves both replicas with the same item or the same tombstone for every id
\* either of them held.
C15_PartialSyncConverges ==
    (last.op = "sync" /\ last.err = "Storage") =>
        \A order \in Orders(all_ids(index_of(PostLocal), index_of(PostRemote))) :
            LET again == sync_bidirectional(PostLocal, PostRemote, order)
            IN  /\ again.err = ""
                /\ \A i \in AllIds :
                      (HoldsSomething(PostLocal, i) \/ HoldsSomething(PostRemote, i)) =>
                          \/ /\ IsSome(again.local.items[i])
                             /\ again.local.items[i] = again.remote.items[i]
                             /\ ~IsSome(again.local.tombstones[i])
                             /\ ~IsSome(again.remote.tombstones[i])
                          \/ /\ IsSome(again.local.tombstones[i])
                             /\ again.local.tombstones[i] = again.remote.tombstones[i]

\* C16: for a replica that holds both an item and a tombstone for an id, the
\* state sync takes for that replica is the entry with the higher
\* sync_version, the tombstone when the versions are equal.
C16_IndexTakesHigherVersion ==
    \A r \in Replicas, i \in AllIds :
        (IsSome(repo[r].items[i]) /\ IsSome(repo[r].tombstones[i])) =>
            index_of(repo[r])[i] =
                IF Unwrap(repo[r].items[i]).sync_version
                      > Unwrap(repo[r].tombstones[i]).sync_version
                THEN Some(Item(Unwrap(repo[r].items[i])))
                ELSE Some(Tombstone(Unwrap(repo[r].tombstones[i])))

\* ---------------------------------------------------------------------------
\* Session and authentication: the auth record of the repository, the session
\* key and the last-activity timestamp kept in the OS keyring.
\* ---------------------------------------------------------------------------

\* i64 timestamps are I64_MIN..I64_MAX and u64 timeouts 0..TIMEOUT_U64_MAX, the
\* 64-bit ranges scaled down with the same shape (one sign bit).
I64_MAX == 3

I64_MIN == -I64_MAX - 1

TIMEOUT_U64_MAX == 2 * I64_MAX + 1

Timestamps == I64_MIN..I64_MAX

Timeouts == 0..TIMEOUT_U64_MAX

MaxPasswords == 2

MaxSalts == 2

KEY_SIZE == 32

ARGON2_M_COST == 65536

ARGON2_T_COST == 3

ARGON2_P_COST == 1

\* Master passwords (one byte stands for the UTF-8 bytes of one password) and
\* the salts generate_salt can draw.
Passwords == {<<b>> : b \in 1..MaxPasswords}

Salts == {<<b>> : b \in 1..MaxSalts}

Ok(value) == [err |-> "", msg |-> "", value |-> Some(value)]

Err(kind) == [err |-> kind, msg |-> "", value |-> None]

Config(msg) == [err |-> "Config", msg |-> msg, value |-> None]

\* --- base64, standard alphabet with padding: characters are their sextet
\* value, PAD is '='.
PAD == 64

encode(bytes) ==
    LET n == Len(bytes)
        byte(i) == IF i <= n THEN bytes[i] ELSE 0
        group(g) ==
            LET b1 == byte(3 * g - 2)
                b2 == byte(3 * g - 1)
                b3 == byte(3 * g)
                rem == n - 3 * (g - 1)
                c1 == b1 \div 4
                c2 == (b1 % 4) * 16 + b2 \div 16
                c3 == (b2 % 16) * 4 + b3 \div 64
                c4 == b3 % 64
            IN  IF rem >= 3 THEN <<c1, c2, c3, c4>>
                ELSE IF rem = 2 THEN <<c1, c2, c3, PAD>>
                ELSE <<c1, c2, PAD, PAD>>
    IN  [k \in 1..(4 * ((n + 2) \div 3)) |-> group(((k - 1) \div 4) + 1)[((k - 1) % 4) + 1]]

\* None when the text is not canonical padded base64.
decode(chars) ==
    LET n == Len(chars)
        pads == IF n >= 2 /\ chars[n] = PAD /\ chars[n - 1] = PAD THEN 2
                ELSE IF n >= 1 /\ chars[n] = PAD THEN 1 ELSE 0
        sextet(i) == IF chars[i] = PAD THEN 0 ELSE chars[i]
        byte(j) ==
            LET base == 4 * ((j - 1) \div 3)
                k == (j - 1) % 3
            IN  IF k = 0 THEN sextet(base + 1) * 4 + sextet(base + 2) \div 16
                ELSE IF k = 1 THEN (sextet(base + 2) % 16) * 16 + sextet(base + 3) \div 4
                ELSE (sextet(base + 3) % 4) * 64 + sextet(base + 4)
        valid ==
            /\ n % 4 = 0
            /\ \A i \in 1..(n - pads) : chars[i] \in 0..63
            /\ pads = 1 => sextet(n - 1) % 4 = 0
            /\ pads = 2 => sextet(n - 2) % 16 = 0
    IN  IF valid THEN Some([j \in 1..((n \div 4) * 3 - pads) |-> byte(j)]) ELSE None

\* --- decimal text of an i64 and its parse
RECURSIVE digits_of(_)
digits_of(n) == IF n < 10 THEN <<n>> ELSE Append(digits_of(n \div 10), n % 10)

to_string(n) == [neg |-> n < 0, digits |-> digits_of(IF n < 0 THEN -n ELSE n)]

RECURSIVE value_of(_)
value_of(ds) ==
    IF ds = <<>> THEN 0
    ELSE value_of(SubSeq(ds, 1, Len(ds) - 1)) * 10 + ds[Len(ds)]

parse_i64(text) ==
    IF text.digits = <<>> THEN None
    ELSE LET v == IF text.neg THEN -value_of(text.digits) ELSE value_of(text.digits)
         IN  IF v \in Timestamps THEN Some(v) ELSE None

\* --- key derivation
RECURSIVE absorb(_)
absorb(bytes) ==
    IF bytes = <<>> THEN 7
    ELSE (absorb(SubSeq(bytes, 1, Len(bytes) - 1)) * 31 + bytes[Len(bytes)]) % 65521

Params(m_cost, t_cost, p_cost) == [m_cost |-> m_cost, t_cost |-> t_cost, p_cost |-> p_cost]

\* Argon2id with output length KEY_SIZE: a deterministic function of the input
\* bytes, the salt and the parameters with no collisions on the inputs used.
hash_password_into(input, salt, params) ==
    LET seed == absorb(input) * 7 + absorb(salt) * 13
                    + params.m_cost + params.t_cost * 5 + params.p_cost * 3
    IN  [i \in 1..KEY_SIZE |-> (seed * i + i * i) % 256]

argon2_instance == Params(ARGON2_M_COST, ARGON2_T_COST, ARGON2_P_COST)

derive_key(master_password, salt_b64) ==
    IF salt_b64 \notin Salts THEN Err("InvalidCredentials")
    ELSE Ok(hash_password_into(master_password, salt_b64, argon2_instance))

\* The PHC string of a hash: its salt, its parameters and the hash.
hash_password(input, salt, params) ==
    [salt |-> salt, params |-> params, hash |-> hash_password_into(input, salt, params)]

AuthRecord(salt, verifier, m_cost, t_cost, p_cost) ==
    [salt |-> salt, verifier |-> verifier, argon2_m_cost |-> m_cost,
     argon2_t_cost |-> t_cost, argon2_p_cost |-> p_cost]

\* salt is the one generate_salt drew.
create_registration_material(master_password, salt) ==
    LET derived == derive_key(master_password, salt)
    IN  IF derived.err # "" THEN derived
        ELSE Ok([salt_b64 |-> salt,
                 verifier |-> hash_password(Unwrap(derived.value), salt, argon2_instance)])

\* Re-derives the key with the parameters of the record and verifies it
\* against the stored verifier; every derivation or verification error is
\* InvalidCredentials.
verify_password_with_params(master_password, salt_b64, verifier, m_cost, t_cost, p_cost) ==
    IF salt_b64 \notin Salts THEN Err("InvalidCredentials")
    ELSE LET derived == hash_password_into(master_password, salt_b64,
                                           Params(m_cost, t_cost, p_cost))
         IN  IF hash_password(derived, verifier.salt, verifier.params).hash = verifier.hash
             THEN Ok(derived)
             ELSE Err("InvalidCredentials")

\* --- keyring entries
store_session_key(kr, key) == [kr EXCEPT !.key = Some(encode(key))]

load_session_key(kr) ==
    IF ~IsSome(kr.key) THEN Err("NoActiveSession")
    ELSE LET decoded == decode(Unwrap(kr.key))
         IN  IF ~IsSome(decoded) THEN Err("NoActiveSession")
             ELSE IF Len(Unwrap(decoded)) # KEY_SIZE THEN Err("NoActiveSession")
             ELSE Ok(Unwrap(decoded))

\* Entry::delete_password: NoEntry when the entry holds nothing.
delete_password(entry) ==
    [err |-> IF IsSome(entry) THEN "" ELSE "NoEntry", entry |-> None]

clear_session_key_kept(kr) == kr

\* The result of delete_password is dropped (`let _ =`).
clear_session_key(kr) == [kr EXCEPT !.key = delete_password(kr.key).entry]

touch_session(kr, now) == [kr EXCEPT !.meta = Some(to_string(now))]

clear_session_metadata_kept(kr) == kr

clear_session_metadata(kr) == [kr EXCEPT !.meta = delete_password(kr.meta).entry]

\* --- auth/login.rs
set_auth_record(record) == Some(record)

register(master_password, salt) ==
    LET material == create_registration_material(master_password, salt)
    IN  IF material.err # "" THEN [err |-> material.err, msg |-> "", auth |-> None]
        ELSE [err |-> "", msg |-> "",
              auth |-> set_auth_record(
                  AuthRecord(Unwrap(material.value).salt_b64, Unwrap(material.value).verifier,
                             ARGON2_M_COST, ARGON2_T_COST, ARGON2_P_COST))]

\* Verification under the compile-time parameters.
verify_password(master_password, salt_b64, verifier) ==
    LET derived == derive_key(master_password, salt_b64)
    IN  IF derived.err # "" THEN Err("InvalidCredentials")
        ELSE IF hash_password(Unwrap(derived.value), verifier.salt, verifier.params).hash
                    = verifier.hash
        THEN derived
        ELSE Err("InvalidCredentials")

login_with_store_compile_time_params(record, master_password, kr) ==
    IF ~IsSome(record)
    THEN [err |-> "Config", msg |-> "vault not initialized; run init", keyring |-> kr]
    ELSE LET a == Unwrap(record)
             derived == verify_password(master_password, a.salt, a.verifier)
         IN  IF derived.err # "" THEN [err |-> derived.err, msg |-> "", keyring |-> kr]
             ELSE [err |-> "", msg |-> "",
                   keyring |-> store_session_key(kr, Unwrap(derived.value))]

login_with_store_before_verifying(record, master_password, kr) ==
    IF ~IsSome(record)
    THEN [err |-> "Config", msg |-> "vault not initialized; run init", keyring |-> kr]
    ELSE LET a == Unwrap(record)
             derived == verify_password_with_params(master_password, a.salt, a.verifier,
                            a.argon2_m_cost, a.argon2_t_cost, a.argon2_p_cost)
             unverified == hash_password_into(master_password, a.salt,
                               Params(a.argon2_m_cost, a.argon2_t_cost, a.argon2_p_cost))
         IN  [err |-> derived.err, msg |-> "", keyring |-> store_session_key(kr, unverified)]

\* record is what get_auth_record returned.
login_with_store(record, master_password, kr) ==
    IF ~IsSome(record)
    THEN [err |-> "Config", msg |-> "vault not initialized; run init", keyring |-> kr]
    ELSE LET a == Unwrap(record)
             derived == verify_password_with_params(master_password, a.salt, a.verifier,
                            a.argon2_m_cost, a.argon2_t_cost, a.argon2_p_cost)
         IN  IF derived.err # "" THEN [err |-> derived.err, msg |-> "", keyring |-> kr]
             ELSE [err |-> "", msg |-> "",
                   keyring |-> store_session_key(kr, Unwrap(derived.value))]

logout_with_store(kr) == clear_session_key(kr)

current_session_key(kr) == load_session_key(kr)

\* --- cli/session.rs
i64_saturating_sub(a, b) ==
    LET d == a - b
    IN  IF d > I64_MAX THEN I64_MAX ELSE IF d < I64_MIN THEN I64_MIN ELSE d

\* `timeout_secs as i64`: the two's-complement reading of the same bits.
u64_as_i64(t) == IF t <= I64_MAX THEN t ELSE t - (TIMEOUT_U64_MAX + 1)

is_expired(now, last_activity, timeout_secs) ==
    i64_saturating_sub(now, last_activity) > u64_as_i64(timeout_secs)

\* now is the second the clock shows during the call.
enforce_timeout(kr, timeout_secs, now) ==
    IF current_session_key(kr).err # ""
    THEN [err |-> current_session_key(kr).err, keyring |-> kr]
    ELSE IF ~IsSome(kr.meta) THEN [err |-> "", keyring |-> touch_session(kr, now)]
    ELSE LET parsed == parse_i64(Unwrap(kr.meta))
         IN  IF ~IsSome(parsed)
             THEN [err |-> "SessionExpired", keyring |-> clear_session_metadata(kr)]
             ELSE IF is_expired(now, Unwrap(parsed), timeout_secs)
             THEN [err |-> "SessionExpired",
                   keyring |-> clear_session_metadata(logout_with_store(kr))]
             ELSE [err |-> "", keyring |-> touch_session(kr, now)]

session_state(kr) == IF current_session_key(kr).err = "" THEN "Active" ELSE "Locked"

\* --- the commands
SessionResult(op, err, msg, password, timeout_secs, now, key) ==
    [op |-> op, err |-> err, msg |-> msg, password |-> password,
     timeout_secs |-> timeout_secs, now |-> now, key |-> key]

SessionStep(next_auth, next_keyring, result) ==
    /\ auth' = next_auth
    /\ keyring' = next_keyring
    /\ last' = result
    /\ pre' = [auth |-> auth, keyring |-> keyring]
    /\ UNCHANGED <<repo, backup, observed, budget, calls, backup_file>>

\* init with a master password that passed the policy and a confirmed prompt:
\* registers the master password.
RunInit ==
    \E p \in Passwords, salt \in Salts :
        LET r == register(p, salt)
        IN  SessionStep(IF r.err = "" THEN r.auth ELSE auth, keyring,
                        SessionResult("register", r.err, r.msg, p, 0, 0, None))

RunLogin ==
    \E p \in Passwords, now \in Timestamps :
        LET r == login_with_store(auth, p, keyring)
        IN  SessionStep(auth,
                        IF r.err = "" THEN touch_session(r.keyring, now) ELSE r.keyring,
                        SessionResult("login", r.err, r.msg, p, 0, now, None))

RunLogout ==
    SessionStep(auth, clear_session_metadata(logout_with_store(keyring)),
                SessionResult("logout", "", "", <<>>, 0, 0, None))

\* The session part of every command that uses the key: enforce_timeout, then
\* current_session_key, then touch_session.
RunKeyCommand ==
    \E timeout_secs \in Timeouts, now \in Timestamps :
        LET checked == enforce_timeout(keyring, timeout_secs, now)
            key == current_session_key(checked.keyring)
        IN  IF checked.err # ""
            THEN SessionStep(auth, checked.keyring,
                     SessionResult("command", checked.err, "", <<>>, timeout_secs, now, None))
            ELSE IF key.err # ""
            THEN SessionStep(auth, checked.keyring,
                     SessionResult("command", key.err, "", <<>>, timeout_secs, now, None))
            ELSE SessionStep(auth, touch_session(checked.keyring, now),
                     SessionResult("command", "", "", <<>>, timeout_secs, now, key.value))

\* The session indicator every command prints first.
SessionIndicator ==
    SessionStep(auth, keyring,
        SessionResult(session_state(keyring), current_session_key(keyring).err, "",
                      <<>>, 0, 0, current_session_key(keyring).value))

NextSession == RunInit \/ RunLogin \/ RunLogout \/ RunKeyCommand \/ SessionIndicator

SpecSession == InitOver(Ids, MaxOps) /\ [][NextSession]_vars

\* ---------------------------------------------------------------------------
\* Claims about the session and authentication
\* ---------------------------------------------------------------------------

\* The last command ran enforce_timeout on a keyring that held a session key
\* and a last-activity timestamp.
CommandOnSession ==
    /\ last.op = "command"
    /\ IsSome(pre.keyring.key)
    /\ IsSome(pre.keyring.meta)
    /\ IsSome(parse_i64(Unwrap(pre.keyring.meta)))

LastActivity == Unwrap(parse_i64(Unwrap(pre.keyring.meta)))

\* C17: a command that uses the key runs the idle check first: when
\* now - last_activity > timeout_secs the key and the timestamp are cleared and
\* the command fails with SessionExpired without the key; otherwise the
\* timestamp is refreshed to now and the key is kept.
C17_IdleCheckRunsFirst ==
    CommandOnSession =>
        IF last.now - LastActivity > last.timeout_secs
        THEN /\ keyring = EmptyKeyring
             /\ last.err = "SessionExpired"
             /\ last.key = None
        ELSE /\ keyring.meta = Some(to_string(last.now))
             /\ keyring.key = pre.keyring.key

\* C18: for every timeout_secs of the u64 range and every now >= last_activity
\* of the i64 range the boundary is strict: an age equal to timeout_secs is not
\* expired, an age of timeout_secs + 1 is expired.
C18_TimeoutBoundaryStrict ==
    (CommandOnSession /\ last.now >= LastActivity) =>
        /\ (last.now - LastActivity = last.timeout_secs => last.err # "SessionExpired")
        /\ (last.now - LastActivity = last.timeout_secs + 1 => last.err = "SessionExpired")

SessionOps == {"register", "login", "logout", "command", "Active", "Locked"}

\* The auth record is one that register(p) wrote, with the salt it drew.
RegisteredWith(record, p, salt) == record = register(p, salt).auth

\* C19: after register(p) and login(p) loading the session key returns the
\* KEY_SIZE-byte key derived from p and the stored salt; after logout loading
\* fails with NoActiveSession, and keeps failing until a login succeeds.
C19_LoginLoadsDerivedKey ==
    /\ \A p \in Passwords, salt \in Salts :
          (last.op = "login" /\ last.password = p /\ RegisteredWith(pre.auth, p, salt)) =>
              /\ last.err = ""
              /\ current_session_key(keyring) = derive_key(p, salt)
              /\ Len(Unwrap(current_session_key(keyring).value)) = KEY_SIZE
    /\ last.op = "logout" => current_session_key(keyring) = Err("NoActiveSession")
    /\ ( /\ last.op \in SessionOps
         /\ current_session_key(pre.keyring).err # ""
         /\ ~(last.op = "login" /\ last.err = "") )
          => current_session_key(keyring) = Err("NoActiveSession")

\* A login with the registered password has just stored the key in a keyring
\* that a logout had emptied.
C19_Witness ==
    /\ last.op = "login"
    /\ last.err = ""
    /\ pre.keyring = EmptyKeyring
    /\ \E salt \in Salts : RegisteredWith(pre.auth, last.password, salt)
    /\ current_session_key(keyring).err = ""

\* A failed login leaves the session-key store as it was; msg is the message
\* of the Config error for a repository without auth record.
FailedLoginStoresNothing(msg) ==
    last.op = "login" =>
        /\ ~IsSome(pre.auth) => (last.err = "Config" /\ last.msg = msg)
        /\ ( /\ IsSome(pre.auth)
             /\ \A salt \in Salts : ~RegisteredWith(pre.auth, last.password, salt) )
              => last.err = "InvalidCredentials"
        /\ last.err # "" => keyring.key = pre.keyring.key

\* C20: a failed login never hands a key to the session-key store: without an
\* auth record it fails with Config("vault not initialized; run init"), with a
\* wrong password with InvalidCredentials, and the store is unchanged.
C20_FailedLoginStoresNothing ==
    FailedLoginStoresNothing("vault not initialized; run init")

\* C20 as stated: the Config error carries the message "vault not initialized".
C20_FailedLoginConfigMessage ==
    FailedLoginStoresNothing("vault not initialized")

\* A login with a wrong password failed while the store held a key.
C20_Witness ==
    /\ last.op = "login"
    /\ last.err = "InvalidCredentials"
    /\ IsSome(pre.keyring.key)
    /\ keyring.key = pre.keyring.key

\* ---------------------------------------------------------------------------
\* Auth records written with Argon2 parameters other than the defaults
\* ---------------------------------------------------------------------------

CUSTOM_M_COST == 32768

CUSTOM_T_COST == 4

CUSTOM_P_COST == 1

derive_key_with_params(master_password, salt_b64, m_cost, t_cost, p_cost) ==
    IF salt_b64 \notin Salts THEN Err("InvalidCredentials")
    ELSE Ok(hash_password_into(master_password, salt_b64, Params(m_cost, t_cost, p_cost)))

\* The record a vault holds when it was initialised under other parameters.
custom_auth_record(master_password, salt, m_cost, t_cost, p_cost) ==
    AuthRecord(salt,
               hash_password(Unwrap(derive_key_with_params(master_password, salt,
                                        m_cost, t_cost, p_cost).value),
                             salt, Params(m_cost, t_cost, p_cost)),
               m_cost, t_cost, p_cost)

StoreCustomAuthRecord ==
    \E p \in Passwords, salt \in Salts :
        SessionStep(set_auth_record(custom_auth_record(p, salt, CUSTOM_M_COST,
                                        CUSTOM_T_COST, CUSTOM_P_COST)),
                    keyring,
                    SessionResult("set_auth_record", "", "", p, 0, 0, None))

NextParams ==
    StoreCustomAuthRecord \/ RunInit \/ RunLogin \/ RunLogout \/ SessionIndicator

SpecParams == InitOver(Ids, MaxOps) /\ [][NextParams]_vars

\* The record before the last command was written for password p and salt
\* under the custom parameters.
CustomRecordOf(p, salt) ==
    pre.auth = Some(custom_auth_record(p, salt, CUSTOM_M_COST, CUSTOM_T_COST, CUSTOM_P_COST))

\* C21: for an auth record written with parameters other than the defaults,
\* login with the correct password succeeds and the key in the session store
\* is the key derived under the stored parameters, which is not the key the
\* default parameters give.
C21_LoginUsesStoredParams ==
    \A p \in Passwords, salt \in Salts :
        (last.op = "login" /\ last.password = p /\ CustomRecordOf(p, salt)) =>
            /\ last.err = ""
            /\ current_session_key(keyring)
                  = derive_key_with_params(p, salt, CUSTOM_M_COST, CUSTOM_T_COST, CUSTOM_P_COST)
            /\ current_session_key(keyring) # derive_key(p, salt)

C21_Witness ==
    /\ last.op = "login"
    /\ last.err = ""
    /\ \E salt \in Salts : CustomRecordOf(last.password, salt)
    /\ current_session_key(keyring).err = ""

\* C22: logout clears the session key and the last-activity timestamp and is
\* idempotent: it succeeds, and leaves both absent, also when there is no
\* active session.
C22_LogoutClearsBothIdempotent ==
    last.op = "logout" =>
        /\ last.err = ""
        /\ keyring.key = None
        /\ keyring.meta = None

\* A logout ran on a keyring that an earlier logout had already emptied.
C22_Witness ==
    /\ last.op = "logout"
    /\ pre.keyring = EmptyKeyring
    /\ IsSome(pre.auth)
    /\ keyring = EmptyKeyring

\* ---------------------------------------------------------------------------
\* Key custody: what the buffer that held a copy of the derived key contains
\* when the operation returns.  key_copy is None when the operation returned
\* before it took a copy.
\* ---------------------------------------------------------------------------

zeroize(bytes) == [i \in 1..Len(bytes) |-> 0]

\* register; fuel is the number of repository calls the storage serves.
register_with_storage(master_password, salt, fuel) ==
    LET derived == derive_key(master_password, salt)
        material == create_registration_material(master_password, salt)
    IN  IF material.err # ""
        THEN [err |-> material.err, auth |-> None, key_copy |-> None]
        ELSE IF ~served(fuel)
        THEN [err |-> "Storage", auth |-> None, key_copy |-> derived.value]
        ELSE [err |-> "",
              auth |-> set_auth_record(
                  AuthRecord(Unwrap(material.value).salt_b64, Unwrap(material.value).verifier,
                             ARGON2_M_COST, ARGON2_T_COST, ARGON2_P_COST)),
              key_copy |-> Some(zeroize(Unwrap(derived.value)))]

\* login_with_store on a key store that serves the store call or fails it.
login_with_key_store(record, master_password, kr, store_served) ==
    IF ~IsSome(record)
    THEN [err |-> "Config", keyring |-> kr, key_copy |-> None]
    ELSE LET a == Unwrap(record)
             derived == verify_password_with_params(master_password, a.salt, a.verifier,
                            a.argon2_m_cost, a.argon2_t_cost, a.argon2_p_cost)
         IN  IF derived.err # "" THEN [err |-> derived.err, keyring |-> kr, key_copy |-> None]
             ELSE IF ~store_served
             THEN [err |-> "KeyringUnavailable", keyring |-> kr, key_copy |-> derived.value]
             ELSE [err |-> "",
                   keyring |-> store_session_key(kr, Unwrap(derived.value)),
                   key_copy |-> Some(zeroize(Unwrap(derived.value)))]

\* VaultService::add_item: encrypt, then upsert_item on the storage.
add_item_with_storage(rp, id, type, title, data, now, fuel) ==
    IF ~served(fuel) THEN [err |-> "Storage", repo |-> rp, item |-> None]
    ELSE add_item(rp, id, type, title, data, now)

\* run_add_password / run_add_note from enforce_timeout on.
run_add_password(kr, rp, id, type, title, data, timeout_secs, now, fuel) ==
    LET checked == enforce_timeout(kr, timeout_secs, now)
        key == current_session_key(checked.keyring)
        added == add_item_with_storage(rp, id, type, title, data, now, fuel)
    IN  IF checked.err # ""
        THEN [err |-> checked.err, keyring |-> checked.keyring, repo |-> rp, key_copy |-> None]
        ELSE IF key.err # ""
        THEN [err |-> key.err, keyring |-> checked.keyring, repo |-> rp, key_copy |-> None]
        ELSE IF added.err # ""
        THEN [err |-> added.err, keyring |-> checked.keyring, repo |-> rp,
              key_copy |-> key.value]
        ELSE [err |-> "", keyring |-> touch_session(checked.keyring, now),
              repo |-> added.repo, key_copy |-> Some(zeroize(Unwrap(key.value)))]

\* run_backup_import from enforce_timeout on, the file read and parsed.
run_backup_import_with_key(kr, rp, file, timeout_secs, now) ==
    LET checked == enforce_timeout(kr, timeout_secs, now)
        key == current_session_key(checked.keyring)
        imported == run_backup_import(rp, file)
    IN  IF checked.err # ""
        THEN [err |-> checked.err, keyring |-> checked.keyring, repo |-> rp, key_copy |-> None]
        ELSE IF key.err # ""
        THEN [err |-> key.err, keyring |-> checked.keyring, repo |-> rp, key_copy |-> None]
        ELSE IF import_encrypted(file).err # ""
        THEN [err |-> imported.err, keyring |-> checked.keyring, repo |-> rp,
              key_copy |-> key.value]
        ELSE [err |-> "", keyring |-> touch_session(checked.keyring, now),
              repo |-> imported.repo, key_copy |-> Some(zeroize(Unwrap(key.value)))]

CustodyResult(op, err, key_copy) == [op |-> op, err |-> err, key_copy |-> key_copy]

CustodyStep(next_auth, next_keyring, next_repo, result) ==
    /\ auth' = next_auth
    /\ keyring' = next_keyring
    /\ repo' = next_repo
    /\ last' = result
    /\ Observe
    /\ UNCHANGED <<pre, budget, calls, backup_file>>

\* The --session-timeout-secs the commands of this part run with.
CustodyTimeout == I64_MAX

\* The replica the commands of this part run on.
CustodyReplica == "A"

CustodyRegister ==
    \E p \in Passwords, salt \in Salts, fuel \in {None, Some(0)} :
        /\ LET r == register_with_storage(p, salt, fuel)
           IN  CustodyStep(IF r.err = "" THEN r.auth ELSE auth, keyring, repo,
                           CustodyResult("register", r.err, r.key_copy))
        /\ UNCHANGED backup

CustodyLogin ==
    \E p \in Passwords, now \in Times, store_served \in BOOLEAN :
        /\ LET r == login_with_key_store(auth, p, keyring, store_served)
           IN  CustodyStep(auth,
                           IF r.err = "" THEN touch_session(r.keyring, now) ELSE r.keyring,
                           repo, CustodyResult("login", r.err, r.key_copy))
        /\ UNCHANGED backup

CustodyAddPassword ==
    \E type \in VaultItemType, title \in Titles, data \in Ciphertexts, now \in Times,
       fuel \in {None, Some(0)} :
        /\ unused_ids # {}
        /\ LET id == CHOOSE i \in unused_ids : \A j \in unused_ids : i <= j
               r == run_add_password(keyring, repo[CustodyReplica], id, type, title, data,
                                     CustodyTimeout, now, fuel)
           IN  CustodyStep(auth, r.keyring, [repo EXCEPT ![CustodyReplica] = r.repo],
                           CustodyResult("add", r.err, r.key_copy))
        /\ UNCHANGED backup

\* backup-export, and the same file with a format_version this build does not
\* read.
CustodyBackupExport ==
    \E version \in {BACKUP_FORMAT_VERSION, BACKUP_FORMAT_VERSION + 1} :
        /\ backup' = Some([export_encrypted(list_items(repo[CustodyReplica]).items)
                              EXCEPT !.format_version = version])
        /\ CustodyStep(auth, keyring, repo, CustodyResult("backup_export", "", None))

CustodyBackupImport ==
    \E now \in Times :
        /\ IsSome(backup)
        /\ LET r == run_backup_import_with_key(keyring, repo[CustodyReplica], Unwrap(backup),
                                               CustodyTimeout, now)
           IN  CustodyStep(auth, r.keyring, [repo EXCEPT ![CustodyReplica] = r.repo],
                           CustodyResult("backup_import", r.err, r.key_copy))
        /\ UNCHANGED backup

NextCustody ==
    \/ CustodyRegister
    \/ CustodyLogin
    \/ CustodyAddPassword
    \/ CustodyBackupExport
    \/ CustodyBackupImport

SpecCustody == InitOver(Ids, MaxOps) /\ [][NextCustody]_vars

\* C23: every copy of the derived key that register, login, add-password,
\* add-note, show, backup export or backup import took is all zeros when the
\* operation returns, on success and on every error return.
C23_KeyCopiesWiped ==
    (last.op \in {"register", "login", "add", "backup_import"}
        /\ "key_copy" \in DOMAIN last /\ IsSome(last.key_copy)) =>
        Unwrap(last.key_copy) = zeroize(Unwrap(last.key_copy))

\* ---------------------------------------------------------------------------
\* The encrypted backup file with its encoded fields
\* ---------------------------------------------------------------------------

MaxOpsBackup == 4

\* serde names of VaultItemType, and the titles in a fixed numbering.
TypeNames == <<"password", "note">>

TitleNames ==
    CHOOSE f \in [1..Cardinality(Titles) -> Titles] : \A t \in Titles : \E k \in DOMAIN f : f[k] = t

code_in(names, x) == CHOOSE k \in DOMAIN names : names[k] = x

\* to_vec of a VaultItem with sync_version written as default_sync_version.
to_vec_item_default_sync_version(item) ==
    <<item.id, code_in(TypeNames, item.type), code_in(TitleNames, item.title),
      Len(item.encrypted_data)>>
        \o item.encrypted_data
        \o <<item.nonce_len, 1, item.created_at, item.updated_at>>

\* serde_json::to_vec of one VaultItem: its fields in declaration order, the
\* byte vector with its length in front.
to_vec_item(item) ==
    <<item.id, code_in(TypeNames, item.type), code_in(TitleNames, item.title),
      Len(item.encrypted_data)>>
        \o item.encrypted_data
        \o <<item.nonce_len, item.sync_version, item.created_at, item.updated_at>>

RECURSIVE to_vec_items(_)
to_vec_items(items) ==
    IF Len(items) = 0 THEN <<>>
    ELSE to_vec_item(items[1]) \o to_vec_items(SubSeq(items, 2, Len(items)))

\* serde_json::to_vec(&BackupPayload)
to_vec(payload) ==
    <<payload.schema_version, payload.exported_at, Len(payload.items)>>
        \o to_vec_items(payload.items)

\* None when the bytes are not n items.
RECURSIVE from_slice_items(_, _)
from_slice_items(bytes, n) ==
    IF n = 0 THEN (IF Len(bytes) = 0 THEN Some(<<>>) ELSE None)
    ELSE IF Len(bytes) < 4 THEN None
    ELSE LET len == bytes[4]
             size == 8 + len
         IN  IF Len(bytes) < size THEN None
             ELSE IF \/ bytes[2] \notin DOMAIN TypeNames
                     \/ bytes[3] \notin DOMAIN TitleNames
                     \/ bytes[5 + len] # NONCE_SIZE
             THEN None
             ELSE LET item == [id |-> bytes[1], type |-> TypeNames[bytes[2]],
                               title |-> TitleNames[bytes[3]],
                               encrypted_data |-> SubSeq(bytes, 5, 4 + len),
                               nonce_len |-> bytes[5 + len],
                               sync_version |-> bytes[6 + len],
                               created_at |-> bytes[7 + len],
                               updated_at |-> bytes[8 + len]]
                      rest == from_slice_items(SubSeq(bytes, size + 1, Len(bytes)), n - 1)
                  IN  IF IsSome(rest) THEN Some(<<item>> \o Unwrap(rest)) ELSE None

\* serde_json::from_slice::<BackupPayload>; None is a serde_json::Error.
from_slice(bytes) ==
    IF Len(bytes) < 3 THEN None
    ELSE LET items == from_slice_items(SubSeq(bytes, 4, Len(bytes)), bytes[3])
         IN  IF IsSome(items)
             THEN Some([schema_version |-> bytes[1], exported_at |-> bytes[2],
                        items |-> Unwrap(items)])
             ELSE None

\* ChaCha20-Poly1305: a keystream and a one-byte tag that depend on key and
\* nonce, the tag appended to the body.
keystream(key, nonce, n) ==
    LET seed == absorb(key) + 3 * absorb(nonce)
    IN  [i \in 1..n |-> (seed + 7 * i) % 256]

tag_of(key, nonce, body) ==
    (absorb(key) * 5 + absorb(nonce) * 11 + absorb(body)) % 256

\* crypto::encrypt; nonce is what the rng filled in.
encrypt(key, nonce, plaintext) ==
    LET ks == keystream(key, nonce, Len(plaintext))
        body == [i \in 1..Len(plaintext) |-> (plaintext[i] + ks[i]) % 256]
    IN  [ciphertext |-> Append(body, tag_of(key, nonce, body)), nonce |-> nonce]

\* crypto::decrypt
decrypt_with_key(key, nonce, ciphertext) ==
    IF Len(ciphertext) = 0 THEN Err("Crypto")
    ELSE LET body == SubSeq(ciphertext, 1, Len(ciphertext) - 1)
             ks == keystream(key, nonce, Len(body))
         IN  IF ciphertext[Len(ciphertext)] # tag_of(key, nonce, body) THEN Err("Crypto")
             ELSE Ok([i \in 1..Len(body) |-> (body[i] - ks[i] + 256) % 256])

\* Sha256 over the bytes: a two-byte digest.
sha256(bytes) == LET h == absorb(bytes) IN <<h \div 256, h % 256>>

\* hex::encode
hex_encode(bytes) ==
    [k \in 1..(2 * Len(bytes)) |->
        IF k % 2 = 1 THEN bytes[(k + 1) \div 2] \div 16 ELSE bytes[k \div 2] % 16]

BackupPayload(schema_version, exported_at, items) ==
    [schema_version |-> schema_version, exported_at |-> exported_at, items |-> items]

EncryptedBackupFile(format_version, nonce_b64, ciphertext_b64, checksum_hex) ==
    [format_version |-> format_version, nonce_b64 |-> nonce_b64,
     ciphertext_b64 |-> ciphertext_b64, checksum_hex |-> checksum_hex]

\* export_encrypted with the key; items is the Vec, now the export time.
export_encrypted_file(items, key, nonce, now) ==
    LET payload == BackupPayload(BACKUP_FORMAT_VERSION, now, items)
        encrypted == encrypt(key, nonce, to_vec(payload))
    IN  EncryptedBackupFile(BACKUP_FORMAT_VERSION, encode(encrypted.nonce),
                            encode(encrypted.ciphertext),
                            hex_encode(sha256(encrypted.nonce \o encrypted.ciphertext)))

ImportResult(err, msg, payload, decrypt_called) ==
    [err |-> err, msg |-> msg, payload |-> payload, decrypt_called |-> decrypt_called]

\* import_encrypted with the checksum compared after the decryption.
import_encrypted_file_decrypting_first(file, key) ==
    IF file.format_version # BACKUP_FORMAT_VERSION
    THEN ImportResult("Config", "unsupported backup format version", None, FALSE)
    ELSE LET nonce_bytes == decode(file.nonce_b64)
             ciphertext == decode(file.ciphertext_b64)
         IN  IF ~IsSome(nonce_bytes) THEN ImportResult("Serialization", "", None, FALSE)
             ELSE IF Len(Unwrap(nonce_bytes)) # NONCE_SIZE
             THEN ImportResult("Serialization", "", None, FALSE)
             ELSE IF ~IsSome(ciphertext) THEN ImportResult("Serialization", "", None, FALSE)
             ELSE LET plaintext == decrypt_with_key(key, Unwrap(nonce_bytes), Unwrap(ciphertext))
                  IN  IF plaintext.err # "" THEN ImportResult(plaintext.err, "", None, TRUE)
                      ELSE IF hex_encode(sha256(Unwrap(nonce_bytes) \o Unwrap(ciphertext)))
                                  # file.checksum_hex
                      THEN ImportResult("Crypto", "", None, TRUE)
                      ELSE IF ~IsSome(from_slice(Unwrap(plaintext.value)))
                      THEN ImportResult("Serialization", "", None, TRUE)
                      ELSE ImportResult("", "", from_slice(Unwrap(plaintext.value)), TRUE)

\* import_encrypted with the key; decrypt_called tells whether crypto::decrypt
\* was called.
import_encrypted_file(file, key) ==
    IF file.format_version # BACKUP_FORMAT_VERSION
    THEN ImportResult("Config", "unsupported backup format version", None, FALSE)
    ELSE LET nonce_bytes == decode(file.nonce_b64)
             ciphertext == decode(file.ciphertext_b64)
         IN  IF ~IsSome(nonce_bytes) THEN ImportResult("Serialization", "", None, FALSE)
             ELSE IF Len(Unwrap(nonce_bytes)) # NONCE_SIZE
             THEN ImportResult("Serialization", "", None, FALSE)
             ELSE IF ~IsSome(ciphertext) THEN ImportResult("Serialization", "", None, FALSE)
             ELSE IF hex_encode(sha256(Unwrap(nonce_bytes) \o Unwrap(ciphertext)))
                         # file.checksum_hex
             THEN ImportResult("Crypto", "", None, FALSE)
             ELSE LET plaintext == decrypt_with_key(key, Unwrap(nonce_bytes), Unwrap(ciphertext))
                  IN  IF plaintext.err # "" THEN ImportResult(plaintext.err, "", None, TRUE)
                      ELSE IF ~IsSome(from_slice(Unwrap(plaintext.value)))
                      THEN ImportResult("Serialization", "", None, TRUE)
                      ELSE ImportResult("", "", from_slice(Unwrap(plaintext.value)), TRUE)

\* The upsert loop of run_backup_import over the Vec of the payload.
RECURSIVE upsert_each(_, _)
upsert_each(rp, items) ==
    IF Len(items) = 0 THEN rp
    ELSE upsert_each(upsert_item(rp, items[1]), SubSeq(items, 2, Len(items)))

\* run_backup_import from import_encrypted on.
run_backup_import_file(rp, file, key) ==
    LET imported == import_encrypted_file(file, key)
    IN  IF imported.err # "" THEN [err |-> imported.err, repo |-> rp, imported |-> imported]
        ELSE [err |-> "", repo |-> upsert_each(rp, Unwrap(imported.payload).items),
              imported |-> imported]

\* The Vecs list_items may return: the rows ordered by updated_at DESC.
listings(rp) ==
    {f \in Orders(list_items(rp).items) :
        \A k \in DOMAIN f, j \in DOMAIN f : k < j => f[k].updated_at >= f[j].updated_at}

\* The session keys of the vault and of another vault.
BackupKeys == {Unwrap(derive_key(p, <<1>>).value) : p \in Passwords}

\* What the rng may fill a nonce with.
Nonces == {[i \in 1..NONCE_SIZE |-> b] : b \in 1..MaxByte}

\* The ways the file on disk is altered between an export and an import.
Alterations ==
    {"format_version", "checksum_hex", "nonce_b64", "nonce_length", "ciphertext_b64",
     "ciphertext_and_checksum"}

altered(file, how) ==
    LET bump(text, m) == [text EXCEPT ![1] = (text[1] + 1) % m]
    IN  IF how = "format_version"
        THEN [file EXCEPT !.format_version = file.format_version + 1]
        ELSE IF how = "checksum_hex"
        THEN [file EXCEPT !.checksum_hex = bump(file.checksum_hex, 16)]
        ELSE IF how = "nonce_b64"
        THEN [file EXCEPT !.nonce_b64 = [file.nonce_b64 EXCEPT ![1] = PAD]]
        ELSE IF how = "nonce_length"
        THEN [file EXCEPT !.nonce_b64 = SubSeq(file.nonce_b64, 1, Len(file.nonce_b64) - 4)]
        ELSE IF how = "ciphertext_b64"
        THEN [file EXCEPT !.ciphertext_b64 = bump(file.ciphertext_b64, 64)]
        ELSE LET ciphertext_b64 == bump(file.ciphertext_b64, 64)
                 nonce_bytes == decode(file.nonce_b64)
             IN  IF ~IsSome(nonce_bytes) \/ ~IsSome(decode(ciphertext_b64)) THEN file
                 ELSE [file EXCEPT !.ciphertext_b64 = ciphertext_b64,
                           !.checksum_hex = hex_encode(sha256(Unwrap(nonce_bytes)
                                                \o Unwrap(decode(ciphertext_b64))))]

FileResult(op, err, msg, key, listed, decrypt_called) ==
    [op |-> op, err |-> err, msg |-> msg, key |-> key, listed |-> listed,
     decrypt_called |-> decrypt_called]

\* The replica the backup commands run on.
BackupReplica == "A"

FileStep(next_repo, next_file, result) ==
    /\ budget > 0
    /\ budget' = budget - 1
    /\ repo' = next_repo
    /\ backup_file' = next_file
    /\ last' = result
    /\ pre' = [repo |-> repo, backup_file |-> backup_file]
    /\ Observe
    /\ UNCHANGED <<backup, calls, auth, keyring>>

\* backup-export under the session key
BackupExportFile ==
    \E key \in BackupKeys, nonce \in Nonces, now \in Times :
    \E listed \in listings(repo[BackupReplica]) :
        FileStep(repo, Some(export_encrypted_file(listed, key, nonce, now)),
                 FileResult("backup_export", "", "", key, listed, FALSE))

\* The file is altered on disk.
AlterBackupFile ==
    \E how \in Alterations :
        /\ IsSome(backup_file)
        /\ altered(Unwrap(backup_file), how) # Unwrap(backup_file)
        /\ FileStep(repo, Some(altered(Unwrap(backup_file), how)),
                    FileResult("alter", "", how, <<>>, <<>>, FALSE))

\* backup-import under the session key
BackupImportFile ==
    \E key \in BackupKeys :
        /\ IsSome(backup_file)
        /\ LET done == run_backup_import_file(repo[BackupReplica], Unwrap(backup_file), key)
           IN  FileStep([repo EXCEPT ![BackupReplica] = done.repo], backup_file,
                        FileResult("backup_import", done.err, done.imported.msg, key,
                                   IF done.err = "" THEN Unwrap(done.imported.payload).items
                                   ELSE <<>>,
                                   done.imported.decrypt_called))

NextBackup ==
    \/ AddItem(BackupReplica)
    \/ UpdateItem(BackupReplica)
    \/ DeleteItem(BackupReplica)
    \/ BackupExportFile
    \/ AlterBackupFile
    \/ BackupImportFile
    \/ Sync(BackupReplica)

SpecBackup == InitOver(IdsMulti, MaxOpsBackup) /\ [][NextBackup]_vars

\* ---------------------------------------------------------------------------
\* Claims about the backup file
\* ---------------------------------------------------------------------------

\* The repository after VaultService::delete of every item it holds.
RECURSIVE AllDeleted(_)
AllDeleted(rp) ==
    IF \A i \in IdsOf(rp) : ~IsSome(rp.items[i]) THEN rp
    ELSE LET id == CHOOSE i \in IdsOf(rp) : IsSome(rp.items[i])
         IN  AllDeleted(delete(rp, id, MaxTime).repo)

\* The last command was a backup-export that wrote backup_file.
ExportedFile == last.op = "backup_export" /\ "listed" \in DOMAIN last

\* C24: import_encrypted(export_encrypted(items, K), K) returns the item list
\* that was exported, and importing the file into the repository after all its
\* items were deleted leaves it holding exactly the items it held at the
\* export.
C24_BackupRoundTrip ==
    ExportedFile =>
        LET file == Unwrap(backup_file)
            back == import_encrypted_file(file, last.key)
            restored == run_backup_import_file(AllDeleted(repo[BackupReplica]), file, last.key)
        IN  /\ back.err = ""
            /\ Unwrap(back.payload).items = last.listed
            /\ restored.err = ""
            /\ restored.repo.items = repo[BackupReplica].items

\* An export of two items, one of them updated since it was added.
C24_Witness ==
    /\ ExportedFile
    /\ Len(last.listed) = 2
    /\ \E k \in 1..2 : last.listed[k].sync_version > 1

\* The last command was a backup-import of the file pre.backup_file.
ImportedFile == last.op = "backup_import" /\ "decrypt_called" \in DOMAIN last

\* C25: import_encrypted checks format_version (Config), then the base64 of
\* nonce and ciphertext and the nonce length (Serialization), then the
\* checksum (Crypto), then decrypts (Crypto), and stops at the first failure:
\* a file whose checksum does not match fails with Crypto without a call of
\* decrypt under every key, and a file another key decrypts fails with Crypto.
C25_ImportChecksInOrder ==
    ImportedFile =>
        LET file == Unwrap(pre.backup_file)
            nonce_bytes == decode(file.nonce_b64)
            ciphertext == decode(file.ciphertext_b64)
            VersionOk == file.format_version = BACKUP_FORMAT_VERSION
            EncodingOk == /\ IsSome(nonce_bytes)
                          /\ Len(Unwrap(nonce_bytes)) = NONCE_SIZE
                          /\ IsSome(ciphertext)
            ChecksumOk == hex_encode(sha256(Unwrap(nonce_bytes) \o Unwrap(ciphertext)))
                              = file.checksum_hex
            OtherKeyOpens == \E k \in BackupKeys \ {last.key} :
                                 decrypt_with_key(k, Unwrap(nonce_bytes), Unwrap(ciphertext)).err = ""
        IN  /\ ~VersionOk => (last.err = "Config" /\ ~last.decrypt_called)
            /\ (VersionOk /\ ~EncodingOk) => (last.err = "Serialization" /\ ~last.decrypt_called)
            /\ (VersionOk /\ EncodingOk /\ ~ChecksumOk)
                  => (last.err = "Crypto" /\ ~last.decrypt_called)
            /\ (VersionOk /\ EncodingOk /\ ChecksumOk /\ OtherKeyOpens)
                  => (last.err = "Crypto" /\ last.decrypt_called)

\* An import of a file whose checksum_hex was altered failed with Crypto
\* before decrypt was called.
C25_Witness ==
    /\ ImportedFile
    /\ last.err = "Crypto"
    /\ ~last.decrypt_called
    /\ Unwrap(pre.backup_file).format_version = BACKUP_FORMAT_VERSION

\* C26: every item stored in a repository, after any sequence of add, update,
\* backup import and sync, has a 12-byte nonce and a non-empty encrypted_data.
C26_StoredBlobsWellFormed ==
    \A r \in Replicas : \A i \in IdsOf(repo[r]) :
        IsSome(repo[r].items[i]) =>
            /\ Unwrap(repo[r].items[i]).nonce_len = NONCE_SIZE
            /\ Len(Unwrap(repo[r].items[i]).encrypted_data) > 0

\* A backup import stored items after a sync had copied an item to the other
\* replica.
C26_Witness ==
    /\ ImportedFile
    /\ last.err = ""
    /\ Len(last.listed) > 0
    /\ \E i \in IdsOf(repo["B"]) : IsSome(repo["B"].items[i])

\* C27: add_password / add_note persist a new item with sync_version 1 and
\* created_at = updated_at under an id the repository held neither an item nor
\* a tombstone for, and change no other item and no tombstone.
C27_AddPersistsFreshItem ==
    (last.op = "add" /\ last.err = "") =>
        LET r == last.replica
            id == last.id
        IN  /\ IsSome(repo[r].items[id])
            /\ Unwrap(repo[r].items[id]).id = id
            /\ Unwrap(repo[r].items[id]).sync_version = 1
            /\ Unwrap(repo[r].items[id]).created_at = Unwrap(repo[r].items[id]).updated_at
            /\ ~IsSome(pre[r].items[id])
            /\ ~IsSome(pre[r].tombstones[id])
            /\ \A j \in IdsOf(repo[r]) \ {id} : repo[r].items[j] = pre[r].items[j]
            /\ repo[r].tombstones = pre[r].tombstones
            /\ \A other \in Replicas \ {r} : repo[other] = pre[other]

\* An add on a replica that already held an item and a tombstone.
C27_Witness ==
    /\ last.op = "add"
    /\ last.err = ""
    /\ \E j \in IdsOf(repo[last.replica]) \ {last.id} :
           IsSome(pre[last.replica].items[j]) \/ IsSome(pre[last.replica].tombstones[j])

\* ---------------------------------------------------------------------------
\* The master-password policy (core/password_policy.rs) and its callers
\* ---------------------------------------------------------------------------
MIN_MASTER_PASSWORD_LENGTH == 12

\* A candidate is the sequence of its chars, each a one-character string.
is_ascii_lowercase(ch) ==
    ch \in {"a", "b", "c", "d", "e", "f", "g", "h", "i", "j", "k", "l", "m",
     "n", "o", "p", "q", "r", "s", "t", "u", "v", "w", "x", "y", "z"}

is_ascii_uppercase(ch) ==
    ch \in {"A", "B", "C", "D", "E", "F", "G", "H", "I", "J", "K", "L", "M",
     "N", "O", "P", "Q", "R", "S", "T", "U", "V", "W", "X", "Y", "Z"}

is_ascii_digit(ch) ==
    ch \in {"0", "1", "2", "3", "4", "5", "6", "7", "8", "9"}

is_ascii_alphanumeric(ch) ==
    is_ascii_lowercase(ch) \/ is_ascii_uppercase(ch) \/ is_ascii_digit(ch)

is_whitespace(ch) ==
    ch \in {" "}

validate_master_password(candidate) ==
    IF Len(candidate) < MIN_MASTER_PASSWORD_LENGTH
    THEN Config("weak master password: use at least 12 characters")
    ELSE LET chars == {candidate[i] : i \in 1..Len(candidate)}
             has_lower == \E ch \in chars : is_ascii_lowercase(ch)
             has_upper == \E ch \in chars : is_ascii_uppercase(ch)
             has_digit == \E ch \in chars : is_ascii_digit(ch)
             has_symbol == \E ch \in chars : ~is_ascii_alphanumeric(ch) /\ ~is_whitespace(ch)
             class_count == Cardinality({k \in 1..4 :
                                <<has_lower, has_upper, has_digit, has_symbol>>[k]})
         IN  IF class_count < 3
             THEN Config("weak master password: use at least 3 of upper/lower/digit/symbol")
             ELSE Ok(<<>>)

\* The master passwords typed at the prompt or handed to register: the ones of
\* the tests and two at the length boundary.
Candidates ==
    {<<"A", "a", "1", "!", "s", "h", "o", "r", "t">>,
     <<"a", "l", "l", "l", "o", "w", "e", "r", "c", "a", "s", "e", "1", "2">>,
     <<"U", "P", "P", "E", "R", "C", "A", "S", "E", "O", "N", "L", "Y", "1", "2">>,
     <<"S", "t", "r", "o", "n", "g", "P", "a", "s", "s", "1", "2", "!">>,
     <<"M", "a", "s", "t", "e", "r", "P", "a", "s", "s", "1", "2", "!">>,
     <<"S", "t", "r", "o", "n", "g", "P", "a", "s", "1", "!">>,
     <<"S", "t", "r", "o", "n", "g", "P", "a", "s", "s", "1", "!">>,
     <<"l", "o", "w", "e", "r", " ", "c", "a", "s", "e", " ", "1", "2">>}

\* The chars of the candidates in one order; a char's byte is its place in it.
Alphabet ==
    <<"a", "c", "e", "g", "h", "l", "n", "o", "r", "s", "t", "w",
      "A", "C", "E", "L", "M", "N", "O", "P", "R", "S", "U", "Y",
      "1", "2", "!", " ">>

\* SecretString::expose_secret().as_bytes()
as_bytes(candidate) ==
    [i \in 1..Len(candidate) |-> CHOOSE b \in 1..Len(Alphabet) : Alphabet[b] = candidate[i]]

\* run_init from the password prompt to login::register; proceed is the answer
\* to the confirmation prompt, salt the one generate_salt draws.
run_init(candidate, proceed, salt) ==
    LET valid == validate_master_password(candidate)
        registered == register(as_bytes(candidate), salt)
    IN  IF valid.err # "" THEN [err |-> valid.err, msg |-> valid.msg, auth |-> None]
        ELSE IF ~proceed
        THEN [err |-> "Config", msg |-> "operation cancelled", auth |-> None]
        ELSE registered

PolicyResult(op, err, msg, candidate) ==
    [op |-> op, err |-> err, msg |-> msg, candidate |-> candidate]

\* chacrab init
RunInitPrompted ==
    \E candidate \in Candidates, proceed \in BOOLEAN, salt \in Salts :
        LET r == run_init(candidate, proceed, salt)
        IN  SessionStep(IF r.err = "" THEN r.auth ELSE auth, keyring,
                        PolicyResult("run_init", r.err, r.msg, candidate))

\* login::register called by a user of the library
Register ==
    \E candidate \in Candidates, salt \in Salts :
        LET r == register(as_bytes(candidate), salt)
        IN  SessionStep(IF r.err = "" THEN r.auth ELSE auth, keyring,
                        PolicyResult("register", r.err, r.msg, candidate))

NextPolicy == RunInitPrompted \/ Register

SpecPolicy == InitOver(Ids, MaxOps) /\ [][NextPolicy]_vars

\* The policy in the words of its statement: fewer than 12 characters, or
\* fewer than 3 of the classes lowercase, uppercase, digit, symbol.
ViolatesPolicy(candidate) ==
    LET chars == {candidate[i] : i \in 1..Len(candidate)}
        lower == {ch \in chars : is_ascii_lowercase(ch)}
        upper == {ch \in chars : is_ascii_uppercase(ch)}
        digits == {ch \in chars : is_ascii_digit(ch)}
        symbols == {ch \in chars : ~is_whitespace(ch)} \ (lower \cup upper \cup digits)
        classes == {class \in {lower, upper, digits, symbols} : class # {}}
    IN  Len(candidate) < 12 \/ Cardinality(classes) < 3

WeakPasswordMessages ==
    {"weak master password: use at least 12 characters",
     "weak master password: use at least 3 of upper/lower/digit/symbol"}

\* C28: registration with a master password that violates the policy (fewer
\* than 12 characters or fewer than 3 of the 4 classes) fails with
\* Config("weak master password: ...") and writes no AuthRecord.
C28_RegisterValidatesPolicy ==
    (last.op \in {"run_init", "register"} /\ "candidate" \in DOMAIN last
        /\ ViolatesPolicy(last.candidate)) =>
            /\ last.err = "Config"
            /\ last.msg \in WeakPasswordMessages
            /\ auth = pre.auth

\* The same for the init command alone.
C28_InitValidatesPolicy ==
    (last.op = "run_init" /\ ViolatesPolicy(last.candidate)) =>
        /\ last.err = "Config"
        /\ last.msg \in WeakPasswordMessages
        /\ auth = pre.auth

\* The init command accepts exactly the candidates that meet the policy.
C28_InitAcceptsPolicy ==
    (last.op = "run_init" /\ ~ViolatesPolicy(last.candidate)) =>
        last.msg \notin WeakPasswordMessages

\* ---------------------------------------------------------------------------
\* Claims about tombstone winners
\* ---------------------------------------------------------------------------

\* The winner the last sync resolved for the id from the snapshots of both
\* replicas (None when neither held a state).
ResolvedWinner(i) ==
    LET resolved == resolve_state(i, index_of(PreLocal)[i], index_of(PreRemote)[i])
    IN  IF IsSome(resolved) THEN Some(Unwrap(resolved).winner) ELSE None

\* Before the last sync replica r held no item for the id, and nothing or a
\* tombstone other than the winning one.
HeldNoItem(r, i) ==
    /\ ~IsSome(pre[r].items[i])
    /\ pre[r].tombstones[i] # Some(Unwrap(ResolvedWinner(i)).v)

\* C29: when a tombstone wins the resolution of an id and a replica holds no
\* item for it (nothing, or only an older tombstone), the sync succeeds and
\* that replica ends holding the winning tombstone.
C29_TombstoneWinnerReachesEmptyReplica ==
    last.op = "sync" =>
        \A i \in AllIds : \A r \in Replicas :
            (/\ IsSome(ResolvedWinner(i))
             /\ Unwrap(ResolvedWinner(i)).kind = "Tombstone"
             /\ HeldNoItem(r, i)) =>
                /\ last.err = ""
                /\ repo[r].tombstones[i] = Some(Unwrap(ResolvedWinner(i)).v)
                /\ ~IsSome(repo[r].items[i])

\* ---------------------------------------------------------------------------
\* sync_bidirectional next to vault calls: the snapshot (the four list calls)
\* and the loop over all_ids are separate awaits, and vault calls of other
\* tasks land between them.
\* ---------------------------------------------------------------------------
MaxOpsRace == 8

\* The sync call between its awaits: the ids the loop has not visited yet, the
\* two snapshot indexes and the report so far.
SyncCall(pending, local_index, remote_index, report) ==
    [pc |-> "resolving", op |-> "sync", id |-> 0, item |-> None, next_sync_version |-> 0,
     pending |-> pending, local_index |-> local_index, remote_index |-> remote_index,
     report |-> report]

RaceResult(op, id, err, report, local_index, remote_index) ==
    [op |-> op, replica |-> "A", id |-> id, err |-> err, report |-> report,
     local_index |-> local_index, remote_index |-> remote_index]

RaceStep(next_repo, next_call, result) ==
    /\ budget > 0
    /\ budget' = budget - 1
    /\ repo' = next_repo
    /\ calls' = [calls EXCEPT !["c1"] = next_call]
    /\ last' = result
    /\ pre' = repo
    /\ Observe
    /\ UNCHANGED <<backup, auth, keyring, backup_file>>

\* sync_bidirectional(A, B) of caller c1 up to the loop: the list calls, the validation of the
\* listed items and the indexes.
SyncSnapshot ==
    /\ calls["c1"].pc = "idle"
    /\ LET local_items == list_items(repo["A"])
           remote_items == list_items(repo["B"])
           local_index == index_of(repo["A"])
           remote_index == index_of(repo["B"])
           failed == IF local_items.err # "" THEN local_items.err
                     ELSE IF remote_items.err # "" THEN remote_items.err
                     ELSE IF \/ \E item \in local_items.items : ~validate_encrypted_blob_only(item)
                             \/ \E item \in remote_items.items : ~validate_encrypted_blob_only(item)
                     THEN "Config(sync rejected invalid encrypted payload)"
                     ELSE ""
       IN  IF failed # ""
           THEN RaceStep(repo, IdleCall,
                         RaceResult("sync", 0, failed, default_report, local_index, remote_index))
           ELSE \E order \in Orders(all_ids(local_index, remote_index)) :
                    IF order = <<>>
                    THEN RaceStep(repo, IdleCall,
                                  RaceResult("sync", 0, "", default_report,
                                             local_index, remote_index))
                    ELSE RaceStep(repo, SyncCall(order, local_index, remote_index, default_report),
                                  RaceResult("sync_snapshot", 0, "", default_report,
                                             local_index, remote_index))

\* One iteration of the loop, on the repositories as they are now and the
\* indexes as they were at the snapshot; the call returns after the last id or
\* at the first error.
SyncApply ==
    /\ calls["c1"].pc = "resolving"
    /\ LET call == calls["c1"]
           id == Head(call.pending)
           st == [local |-> repo["A"], remote |-> repo["B"], err |-> "",
                  report |-> call.report, fuel |-> None]
           done == apply_resolution(st, id, call.local_index, call.remote_index)
           returned == done.err # "" \/ Tail(call.pending) = <<>>
       IN  RaceStep([repo EXCEPT !["A"] = done.local, !["B"] = done.remote],
                    IF returned THEN IdleCall
                    ELSE [call EXCEPT !.pending = Tail(@), !.report = done.report],
                    RaceResult("sync_apply", id, done.err, done.report,
                               call.local_index, call.remote_index))

NextRace ==
    \/ AddItem("A")
    \/ \E r \in Replicas : UpdateItem(r)
    \/ \E r \in Replicas : DeleteItem(r)
    \/ SyncSnapshot
    \/ SyncApply

SpecRace == InitOver(Ids, MaxOpsRace) /\ [][NextRace]_vars

\* The state the snapshot of the last sync step held for replica r and the id.
SnapshotState(r, i) ==
    IF r = "A" THEN last.local_index[i] ELSE last.remote_index[i]

\* Between the snapshot and the last sync step an update or a delete raised
\* the sync_version replica r stores for the id.
Landed(r, i) ==
    /\ IsSome(SnapshotState(r, i))
    /\ stored_version(pre[r], i) > state_version(Unwrap(SnapshotState(r, i)))

\* C30: when an update or a delete landed on a replica for an id after the
\* snapshot and before the resolution of that id is applied, the sync step
\* does not leave the replica with a lower sync_version for the id than the
\* landed state had.
C30_SyncKeepsLandedWrites ==
    last.op = "sync_apply" =>
        \A r \in Replicas :
            Landed(r, last.id) =>
                stored_version(repo[r], last.id) >= stored_version(pre[r], last.id)

\* ---------------------------------------------------------------------------
\* Claims about interleaved vault calls
\* ---------------------------------------------------------------------------

\* Every caller has returned from its call.
AllReturned == \A c \in Callers : calls[c].pc = "idle"

\* C31: an update that interleaves with a delete of the same id never
\* brings the item back: once the delete has written its tombstone and every
\* call has returned, the repository holds the tombstone and no item for the
\* id.
C31_DeleteIsFinal ==
    AllReturned =>
        \A i \in AllIds :
            IsSome(repo[Shared].tombstones[i]) => ~IsSome(repo[Shared].items[i])

\* ---------------------------------------------------------------------------
\* The secret store as other programs of the user can write it
\* ---------------------------------------------------------------------------

\* Texts that do not parse as an i64: the empty text and the decimal text of a
\* number beyond i64::MAX.
UnparsableTexts == {[neg |-> FALSE, digits |-> <<>>], to_string(I64_MAX + 1)}

\* The entry chacrab / session-last-activity is set to a text that
\* timestamp_str.parse::<i64>() rejects.
WriteLastActivity ==
    \E text \in UnparsableTexts :
        SessionStep(auth, [keyring EXCEPT !.meta = Some(text)],
                    SessionResult("set_password", "", "", <<>>, 0, 0, None))

NextStore == RunInit \/ RunLogin \/ RunLogout \/ RunKeyCommand \/ WriteLastActivity

SpecStore == InitOver(Ids, MaxOps) /\ [][NextStore]_vars

\* C32: whenever enforce_timeout returns SessionExpired, whatever the stored
\* last-activity text was, the session key has been cleared: the load of the
\* key and enforce_timeout fail from then on, for every timeout and clock.
C32_ExpiredSessionIsCleared ==
    (last.op = "command" /\ last.err = "SessionExpired") =>
        /\ current_session_key(keyring).err # ""
        /\ \A timeout_secs \in Timeouts, now \in Timestamps :
               enforce_timeout(keyring, timeout_secs, now).err # ""

\* ---------------------------------------------------------------------------
\* resolve_state on every pair of states of one id
\* ---------------------------------------------------------------------------

\* The states a side can present for the id 1: an item or a tombstone.
SyncStates ==
    {Item(VaultItem(1, type, title, data, ver, created, updated)) :
        type \in VaultItemType, title \in Titles, data \in Ciphertexts,
        ver \in Versions \ {0}, created \in Times, updated \in Times}
    \cup {Tombstone(SyncTombstone(1, deleted, ver)) : deleted \in Times, ver \in Versions \ {0}}

\* The one call of resolve_state of a behaviour; local and remote are the
\* entries of the indexes.
ResolveStates ==
    \E local \in {None} \cup {Some(s) : s \in SyncStates},
       remote \in {None} \cup {Some(s) : s \in SyncStates} :
        /\ last.op = "init"
        /\ last' = [op |-> "resolve_state", local |-> local, remote |-> remote,
                    resolved |-> resolve_state(1, local, remote)]
        /\ UNCHANGED <<repo, backup, pre, observed, budget, calls, auth, keyring, backup_file>>

SpecResolve == InitOver(Ids, MaxOps) /\ [][ResolveStates]_vars

\* The last call of resolve_state was on two differing states.
ResolvedDiffering ==
    /\ last.op = "resolve_state"
    /\ IsSome(last.local)
    /\ IsSome(last.remote)
    /\ last.local # last.remote

\* The resolution of the last call, and the one with the sides exchanged.
Forward == Unwrap(last.resolved)

Backward == Unwrap(resolve_state(1, last.remote, last.local))

\* Two items that agree in sync_version, updated_at and encrypted_data.
ItemsTieOnData(a, b) ==
    /\ a.kind = "Item"
    /\ b.kind = "Item"
    /\ a.v.sync_version = b.v.sync_version
    /\ a.v.updated_at = b.v.updated_at
    /\ a.v.encrypted_data = b.v.encrypted_data

\* C33 as stated: for any two differing states of an id resolve_state picks
\* the same winner and the same conflict flag whichever is passed as local and
\* whichever as remote.
C33_WinnerSymmetric ==
    ResolvedDiffering =>
        /\ Forward.winner = Backward.winner
        /\ Forward.conflict = Backward.conflict

\* C33 as the code has it: for two differing states resolve_state picks the
\* same winner and the same conflict flag in both directions, unless the two
\* are items that agree in sync_version, updated_at and encrypted_data and
\* differ elsewhere: then the one passed as local wins.
C33_WinnerSymmetricUnlessDataTie ==
    ResolvedDiffering =>
        /\ Forward.conflict = Backward.conflict
        /\ IF ItemsTieOnData(Unwrap(last.local), Unwrap(last.remote))
           THEN Forward.winner = Unwrap(last.local) /\ Backward.winner = Unwrap(last.remote)
           ELSE Forward.winner = Backward.winner

\* Two items at equal sync_version and equal updated_at with different
\* ciphertexts, the remote one winning.
C33_Witness ==
    /\ ResolvedDiffering
    /\ Unwrap(last.local).kind = "Item"
    /\ Unwrap(last.remote).kind = "Item"
    /\ state_version(Unwrap(last.local)) = state_version(Unwrap(last.remote))
    /\ state_timestamp(Unwrap(last.local)) = state_timestamp(Unwrap(last.remote))
    /\ Forward.winner = Unwrap(last.remote)

\* ---------------------------------------------------------------------------
\* Claims about conflicts at equal sync_version
\* ---------------------------------------------------------------------------

\* The ids on which the two sides of the last sync held differing states at
\* equal sync_version and different timestamps.
LaterTimestampIds ==
    {i \in ConflictIds :
        /\ state_version(Unwrap(SideState(PreLocal, i)))
              = state_version(Unwrap(SideState(PreRemote, i)))
        /\ state_timestamp(Unwrap(SideState(PreLocal, i)))
              # state_timestamp(Unwrap(SideState(PreRemote, i)))}

\* Of the two side states of the id, the one with the later timestamp.
LaterState(i) ==
    IF state_timestamp(Unwrap(SideState(PreLocal, i)))
          > state_timestamp(Unwrap(SideState(PreRemote, i)))
    THEN Unwrap(SideState(PreLocal, i))
    ELSE Unwrap(SideState(PreRemote, i))

\* C34: when both replicas hold differing states for an id at equal
\* sync_version, the state with the later timestamp (updated_at of an item,
\* deleted_at of a tombstone) wins, item or tombstone: the sync leaves it on
\* both replicas, counts one conflict for the id and no replay_blocked.
C34_LaterTimestampWins ==
    last.op = "sync" =>
        \A i \in LaterTimestampIds :
            (Clean(PreLocal, i) /\ Clean(PreRemote, i)) =>
                /\ last.err = ""
                /\ Rows(PostLocal, i) = RowsOf(LaterState(i))
                /\ Rows(PostRemote, i) = RowsOf(LaterState(i))
                /\ Occurrences(i) = 1
                /\ last.report.replay_blocked = Cardinality(StaleRemoteIds)

\* The same for resolve_state alone: on two differing states at equal
\* sync_version and different timestamps the resolution names the later one
\* as the winner, with the conflict flag and without the replay_blocked flag.
C34_LaterTimestampResolved ==
    (/\ ResolvedDiffering
     /\ state_version(Unwrap(last.local)) = state_version(Unwrap(last.remote))
     /\ state_timestamp(Unwrap(last.local)) # state_timestamp(Unwrap(last.remote))) =>
        /\ Forward.winner =
              IF state_timestamp(Unwrap(last.local)) > state_timestamp(Unwrap(last.remote))
              THEN Unwrap(last.local) ELSE Unwrap(last.remote)
        /\ Forward.conflict
        /\ ~Forward.replay_blocked

\* The ids on which the two sides of the last sync held differing items at
\* equal sync_version and equal updated_at.
ItemTieIds ==
    {i \in ConflictIds :
        /\ Unwrap(SideState(PreLocal, i)).kind = "Item"
        /\ Unwrap(SideState(PreRemote, i)).kind = "Item"
        /\ state_version(Unwrap(SideState(PreLocal, i)))
              = state_version(Unwrap(SideState(PreRemote, i)))
        /\ state_timestamp(Unwrap(SideState(PreLocal, i)))
              = state_timestamp(Unwrap(SideState(PreRemote, i)))}

\* C35: when both replicas hold differing items for an id at equal
\* sync_version and equal updated_at, the item with the lexicographically
\* greater encrypted_data wins and both replicas end holding that item.
C35_GreaterCiphertextWins ==
    last.op = "sync" =>
        \A i \in ItemTieIds :
            (Clean(PreLocal, i) /\ Clean(PreRemote, i)) =>
                LET local_item == Unwrap(PreLocal.items[i])
                    remote_item == Unwrap(PreRemote.items[i])
                IN  /\ last.err = ""
                    /\ \/ VecLt(local_item.encrypted_data, remote_item.encrypted_data)
                       \/ VecLt(remote_item.encrypted_data, local_item.encrypted_data)
                    /\ Rows(PostLocal, i) = Rows(PostRemote, i)
                    /\ Rows(PostLocal, i) =
                          IF VecLt(local_item.encrypted_data, remote_item.encrypted_data)
                          THEN <<Some(remote_item), None>>
                          ELSE <<Some(local_item), None>>

\* A sync met the tie with the greater ciphertext on the remote side.
C35_Witness ==
    /\ SyncOk
    /\ \E i \in ItemTieIds :
           /\ Clean(PreLocal, i)
           /\ Clean(PreRemote, i)
           /\ VecLt(Unwrap(PreLocal.items[i]).encrypted_data,
                    Unwrap(PreRemote.items[i]).encrypted_data)

\* C36: update_password on a note item and update_note on a password item fail
\* with Config("item type mismatch for update") and leave the stored item
\* unchanged: same sync_version, updated_at, nonce, encrypted_data, metadata.
\* The first conjunct is the update that was just made; the second is every
\* update of the other variant that can be made on an item now stored.
C36_TypeMismatchLeavesItem ==
    /\ (last.op = "update" /\ last.err = "Config(item type mismatch for update)") =>
           /\ IsSome(pre[last.replica].items[last.id])
           /\ repo = pre
    /\ \A r \in Replicas, id \in AllIds :
           IsSome(repo[r].items[id]) =>
               \A kind \in VaultItemType \ {Unwrap(repo[r].items[id]).type},
                  title \in Titles, data \in Ciphertexts, now \in Times :
                   LET done == update_item(repo[r], id, kind, title, data, now)
                   IN  /\ done.err = "Config(item type mismatch for update)"
                       /\ done.repo = repo[r]
                       /\ done.repo.items[id] = repo[r].items[id]

\* An update of the other variant was refused on an item that had been updated
\* before.
C36_Witness ==
    /\ last.op = "update"
    /\ last.err = "Config(item type mismatch for update)"
    /\ IsSome(repo[last.replica].items[last.id])
    /\ Unwrap(repo[last.replica].items[last.id]).sync_version > 1

\* ---------------------------------------------------------------------------
\* The audit trail kept inside the encrypted payload.
\* custom_fields["_audit"] is None when the key is absent, a serde_json
\* Value::Array of events, or a Value of another kind.

\* The length append_audit_event trims the array to.
AUDIT_LIMIT == 20
MaxAuditUpdates == 25

\* append_audit_event keeping the oldest events when the array overflows.
append_audit_event_keep_oldest(audit, action, now) ==
    LET event == [action |-> action, at |-> now]
    IN  IF IsSome(audit) /\ Unwrap(audit).kind = "Array"
        THEN LET pushed == Append(Unwrap(audit).events, event)
             IN  [kind |-> "Array",
                  events |-> IF Len(pushed) > AUDIT_LIMIT
                             THEN SubSeq(pushed, 1, AUDIT_LIMIT)
                             ELSE pushed]
        ELSE [kind |-> "Array", events |-> <<event>>]

\* VaultService::append_audit_event on the value of custom_fields["_audit"];
\* the result is the value the key holds afterwards. entry().or_insert_with
\* makes an absent key an empty array before the push.
append_audit_event(audit, action, now) ==
    LET event == [action |-> action, at |-> now]
        entry == IF IsSome(audit) THEN Unwrap(audit)
                 ELSE [kind |-> "Array", events |-> <<>>]
    IN  IF entry.kind = "Array"
        THEN LET pushed == Append(entry.events, event)
                 overflow == Len(pushed) - AUDIT_LIMIT
             IN  [kind |-> "Array",
                  events |-> IF Len(pushed) > AUDIT_LIMIT
                             THEN SubSeq(pushed, overflow + 1, Len(pushed))
                             ELSE pushed]
        ELSE [kind |-> "Array", events |-> <<event>>]

AuditFrame ==
    UNCHANGED <<repo, backup, pre, observed, budget, calls, auth, keyring, backup_file>>

\* add_password / add_note: EncryptedPayload::for_password and for_note start
\* custom_fields empty.
AuditAdd ==
    \E type \in VaultItemType :
        /\ last.op = "init"
        /\ last' = [op |-> "add_item", type |-> type, audit |-> None,
                    before |-> None, updates |-> 0]
        /\ AuditFrame

\* An item whose payload was written through the repository by another
\* holder of the key: "_audit" is a string, an empty array, an array at the
\* limit, or an array longer than the limit.
AuditStored ==
    \E type \in VaultItemType,
       value \in {[kind |-> "String"]}
                 \cup {[kind |-> "Array",
                        events |-> [n \in 1..len |-> [action |-> "stored", at |-> 0]]] :
                           len \in {0, AUDIT_LIMIT, AUDIT_LIMIT + 1}} :
        /\ last.op = "init"
        /\ last' = [op |-> "upsert_item", type |-> type, audit |-> Some(value),
                    before |-> None, updates |-> 0]
        /\ AuditFrame

\* update_password on a password item, update_note on a note item; the n-th
\* update reads the n-th instant of the clock.
AuditUpdate ==
    /\ last.op \in {"add_item", "upsert_item", "append_audit_event"}
    /\ last.updates < MaxAuditUpdates
    /\ last' = [op |-> "append_audit_event", type |-> last.type,
                audit |-> Some(append_audit_event(
                              last.audit,
                              IF last.type = "password" THEN "update_password"
                              ELSE "update_note",
                              last.updates + 1)),
                before |-> last.audit, updates |-> last.updates + 1]
    /\ AuditFrame

NextAudit == AuditAdd \/ AuditStored \/ AuditUpdate
SpecAudit == InitOver(Ids, MaxOps) /\ [][NextAudit]_vars

\* The events of a value of "_audit": none unless it is an array.
AuditEvents(audit) ==
    IF IsSome(audit) /\ Unwrap(audit).kind = "Array" THEN Unwrap(audit).events
    ELSE <<>>

\* The last n elements of a sequence, in order.
Newest(events, n) ==
    IF Len(events) <= n THEN events
    ELSE SubSeq(events, Len(events) - n + 1, Len(events))

\* C37: after any number of updates the "_audit" array holds at most 20
\* events; each update appends one event at the end, and once the length
\* would exceed 20 the oldest events are removed from the front so that the
\* 20 most recent remain in order.
C37_AuditKeepsNewestTwenty ==
    last.op = "append_audit_event" =>
        LET event == [action |-> IF last.type = "password" THEN "update_password"
                                 ELSE "update_note",
                      at |-> last.updates]
            after == AuditEvents(last.audit)
        IN  /\ Unwrap(last.audit).kind = "Array"
            /\ Len(after) <= 20
            /\ Len(after) >= 1
            /\ after[Len(after)] = event
            /\ after = Newest(Append(AuditEvents(last.before), event), 20)

\* An update found twenty events of earlier updates and dropped the oldest.
C37_Witness ==
    /\ last.op = "append_audit_event"
    /\ Len(AuditEvents(last.before)) = 20
    /\ AuditEvents(last.before)[1].at = 1
    /\ AuditEvents(last.audit)[1].at = 2
    /\ Len(AuditEvents(last.audit)) = 20

\* ---------------------------------------------------------------------------
\* The vault commands of the CLI, each from its first statement on, run on the
\* local repository "A" with "B" as the sync remote.
MaxOpsGuard == 4

VaultCommands ==
    {"add-password", "add-note", "list", "show", "delete", "sync",
     "backup-export", "backup-import"}

\* What a command leaves when it returns err without having written anything.
command_failed(err, kr, local, remote, file) ==
    [err |-> err, keyring |-> kr, local |-> local, remote |-> remote, file |-> file]

\* The statements of run_add_password, run_add_note, run_list, run_show,
\* run_delete, run_sync, run_backup_export and run_backup_import that follow
\* session::enforce_timeout. a holds what the user types and what the process
\* draws: id, title, data, typed (the delete confirmation) and order (the
\* iteration order of sync).
vault_command_body(command, kr, local, remote, file, a, now) ==
    LET key == current_session_key(kr)
        listed == list_items(local)
        got == get_item(local, a.id)
        done(next_local, next_remote, next_file) ==
            [err |-> "", keyring |-> touch_session(kr, now), local |-> next_local,
             remote |-> next_remote, file |-> next_file]
        fail(err) == command_failed(err, kr, local, remote, file)
    IN  CASE command \in {"add-password", "add-note"} ->
                 IF key.err # "" THEN fail(key.err)
                 ELSE done(add_item(local, a.id,
                                    IF command = "add-password" THEN "password" ELSE "note",
                                    a.title, a.data, now).repo,
                           remote, file)
          [] command = "list" ->
                 IF listed.err # "" THEN fail(listed.err) ELSE done(local, remote, file)
          [] command = "show" ->
                 IF listed.err # "" THEN fail(listed.err)
                 ELSE IF key.err # "" THEN fail(key.err)
                 ELSE IF got.err # "" THEN fail(got.err)
                 ELSE IF decrypt(Unwrap(got.item).encrypted_data).err # "" THEN fail("Crypto")
                 ELSE done(local, remote, file)
          [] command = "delete" ->
                 IF listed.err # "" THEN fail(listed.err)
                 ELSE IF got.err # "" THEN fail(got.err)
                 ELSE IF a.typed # Unwrap(got.item).title THEN fail("Config")
                 ELSE LET deleted == delete(local, a.id, now)
                      IN  IF deleted.err # ""
                          THEN command_failed(deleted.err, kr, deleted.repo, remote, file)
                          ELSE done(deleted.repo, remote, file)
          [] command = "sync" ->
                 IF listed.err # "" THEN fail(listed.err)
                 ELSE LET synced == sync_bidirectional(local, remote, a.order)
                      IN  IF synced.err # ""
                          THEN command_failed(synced.err, kr, synced.local, synced.remote, file)
                          ELSE done(synced.local, synced.remote, file)
          [] command = "backup-export" ->
                 IF key.err # "" THEN fail(key.err)
                 ELSE IF listed.err # "" THEN fail(listed.err)
                 ELSE done(local, remote, Some(export_encrypted(listed.items)))
          [] command = "backup-import" ->
                 IF ~IsSome(file) THEN fail("Storage")
                 ELSE IF key.err # "" THEN fail(key.err)
                 ELSE LET imported == run_backup_import(local, Unwrap(file))
                      IN  IF imported.err # "" THEN fail(imported.err)
                          ELSE done(imported.repo, remote, file)

\* A vault command that goes to its work without session::enforce_timeout.
run_vault_command_unchecked(command, kr, local, remote, file, a, timeout_secs, now) ==
    vault_command_body(command, kr, local, remote, file, a, now)

\* run dispatching one of the vault commands: session::enforce_timeout is the
\* first statement after the header is printed, and `?` returns its error.
run_vault_command(command, kr, local, remote, file, a, timeout_secs, now) ==
    LET checked == enforce_timeout(kr, timeout_secs, now)
    IN  IF checked.err # ""
        THEN command_failed(checked.err, checked.keyring, local, remote, file)
        ELSE vault_command_body(command, checked.keyring, local, remote, file, a, now)

\* The stored last-activity timestamp is more than timeout_secs before now.
IdleTooLong(kr, timeout_secs, now) ==
    /\ current_session_key(kr).err = ""
    /\ IsSome(kr.meta)
    /\ IsSome(parse_i64(Unwrap(kr.meta)))
    /\ now - Unwrap(parse_i64(Unwrap(kr.meta))) > timeout_secs

\* The --session-timeout-secs the commands run with: none, the largest that
\* fits an i64, the largest u64.
GuardTimeouts == {0, I64_MAX, TIMEOUT_U64_MAX}

RunVaultCommand ==
    \E command \in VaultCommands, timeout_secs \in GuardTimeouts, now \in Times :
    \E id \in IF command \in {"add-password", "add-note"}
               THEN {i \in unused_ids : \A j \in unused_ids : i <= j}
               ELSE AllIds,
       title \in Titles,
       data \in IF command \in {"add-password", "add-note"} THEN Ciphertexts
                ELSE {CHOOSE d \in Ciphertexts : TRUE},
       typed \in IF command = "delete" THEN Titles \cup {""} ELSE {""},
       order \in IF command = "sync"
                 THEN Orders(all_ids(index_of(repo["A"]), index_of(repo["B"])))
                 ELSE {<<>>} :
        /\ budget > 0
        /\ LET r == run_vault_command(command, keyring, repo["A"], repo["B"], backup,
                                      [id |-> id, title |-> title, data |-> data,
                                       typed |-> typed, order |-> order],
                                      timeout_secs, now)
           IN  /\ keyring' = r.keyring
               /\ repo' = [repo EXCEPT !["A"] = r.local, !["B"] = r.remote]
               /\ backup' = r.file
               /\ last' = [op |-> "vault_command", command |-> command, err |-> r.err,
                           checked |-> enforce_timeout(keyring, timeout_secs, now).err,
                           idle |-> IdleTooLong(keyring, timeout_secs, now),
                           file |-> backup]
        /\ budget' = budget - 1
        /\ pre' = repo
        /\ Observe
        /\ UNCHANGED <<calls, auth, backup_file>>

GuardFrame == UNCHANGED <<repo, backup, pre, observed, budget, calls, backup_file>>

\* init under the first master password, on a vault that has no AuthRecord.
GuardInit ==
    \E salt \in Salts :
        /\ ~IsSome(auth)
        /\ salt = CHOOSE s \in Salts : TRUE
        /\ LET r == register(CHOOSE p \in Passwords : TRUE, salt)
           IN  /\ auth' = IF r.err = "" THEN r.auth ELSE auth
               /\ last' = [op |-> "register", err |-> r.err]
        /\ UNCHANGED keyring
        /\ GuardFrame

\* login: login_with_store, then session::touch_session.
GuardLogin ==
    \E p \in Passwords, now \in Times :
        /\ LET r == login_with_store(auth, p, keyring)
           IN  /\ keyring' = IF r.err = "" THEN touch_session(r.keyring, now) ELSE r.keyring
               /\ last' = [op |-> "login", err |-> r.err]
        /\ UNCHANGED auth
        /\ GuardFrame

NextGuard == GuardInit \/ GuardLogin \/ RunVaultCommand
SpecGuard == InitOver(Ids, MaxOpsGuard) /\ [][NextGuard]_vars

C39_ImportKeepsVersion ==
    (last.op = "backup_import" /\ last.err = "") =>
        \A i \in AllIds :
            IsSome(pre[last.replica].items[i]) =>
                /\ IsSome(repo[last.replica].items[i])
                /\ Unwrap(repo[last.replica].items[i]).sync_version
                      >= Unwrap(pre[last.replica].items[i]).sync_version

\* ---------------------------------------------------------------------------
\* The session against real time. last carries the reading of the wall clock
\* (clock) and the seconds that really passed since the last successful login
\* or key-consuming command (idle).
MaxClock == 3

Clock == IF "clock" \in DOMAIN last THEN last.clock ELSE 0
Idle == IF "idle" \in DOMAIN last THEN last.idle ELSE 0

\* stored is the last-activity entry the operation found.
TimedResult(op, err, timeout_secs, idle_before, clock, idle) ==
    [op |-> op, err |-> err, timeout_secs |-> timeout_secs, idle_before |-> idle_before,
     clock |-> clock, idle |-> idle, stored |-> keyring.meta]

\* login: login_with_store, then session::touch_session at the clock's reading.
TimedLogin ==
    \E p \in Passwords :
        /\ LET r == login_with_store(auth, p, keyring)
           IN  /\ keyring' = IF r.err = "" THEN touch_session(r.keyring, Clock) ELSE r.keyring
               /\ last' = TimedResult("login", r.err, 0, Idle, Clock,
                                      IF r.err = "" THEN 0 ELSE Idle)
        /\ UNCHANGED auth
        /\ GuardFrame

\* A key-consuming command: enforce_timeout, the key, the work, touch_session.
TimedCommand ==
    \E timeout_secs \in Timeouts :
        /\ LET checked == enforce_timeout(keyring, timeout_secs, Clock)
               key == current_session_key(checked.keyring)
               err == IF checked.err # "" THEN checked.err ELSE key.err
           IN  /\ keyring' = IF err = "" THEN touch_session(checked.keyring, Clock)
                             ELSE checked.keyring
               /\ last' = TimedResult("timed_command", err, timeout_secs, Idle, Clock,
                                      IF err = "" THEN 0 ELSE Idle)
        /\ UNCHANGED auth
        /\ GuardFrame

\* One second passes.
Tick ==
    /\ Clock < MaxClock
    /\ Idle < MaxClock
    /\ last' = TimedResult("tick", "", 0, Idle, Clock + 1, Idle + 1)
    /\ UNCHANGED <<auth, keyring>>
    /\ GuardFrame

\* The wall clock is set back to before the stored timestamp, which now lies
\* in the future.
ClockSetBack ==
    \E reading \in 0..MaxClock :
        /\ reading < Clock
        /\ IsSome(keyring.meta)
        /\ IsSome(parse_i64(Unwrap(keyring.meta)))
        /\ reading < Unwrap(parse_i64(Unwrap(keyring.meta)))
        /\ last' = TimedResult("clock_set", "", 0, Idle, reading, Idle)
        /\ UNCHANGED <<auth, keyring>>
        /\ GuardFrame

\* The entry chacrab/session-last-activity is missing from the secret store
\* while the session key is there.
DeleteLastActivity ==
    /\ IsSome(keyring.meta)
    /\ keyring' = [keyring EXCEPT !.meta = None]
    /\ last' = TimedResult("delete_password", "", 0, Idle, Clock, Idle)
    /\ UNCHANGED auth
    /\ GuardFrame

NextClock ==
    GuardInit \/ TimedLogin \/ TimedCommand \/ Tick \/ ClockSetBack \/ DeleteLastActivity
SpecClock == InitOver(Ids, MaxOps) /\ [][NextClock]_vars

\* C40: a stored session key is never accepted by enforce_timeout more than
\* timeout_secs after the later of the last successful login and the last
\* successful key-consuming operation, including when the last-activity
\* timestamp is missing from the secret store or lies in the future.
C40_NoAcceptanceAfterTimeout ==
    (last.op = "timed_command" /\ last.err = "") =>
        last.idle_before <= last.timeout_secs
====
